---- MODULE Spec2Model ----
(***************************************************************************)
(* The direct authenticator of ockam_api (authenticator/direct.rs): the    *)
(* Server worker, its enroller allow-list with optional reload from a      *)
(* file, its LRU cache of one-time enrollment codes, the attribute store   *)
(* it writes and the credentials it issues.                                *)
(*                                                                         *)
(* One action, HandleMessage, is one run of Server::handle_message on one  *)
(* inbound message.  The worker handles a message to completion before it  *)
(* takes the next, so the action is atomic.  The environment moves the     *)
(* clock (Tick) and rewrites the enroller file (WriteFile).  New is one    *)
(* call of Server::new by the node: parse_enrollers, then the migration    *)
(* of the legacy member records.                                           *)
(***************************************************************************)
EXTENDS Integers, Naturals, Sequences, FiniteSets, TLC

(***************************************************************************)
(* Bounds of the model.                                                    *)
(***************************************************************************)
\* One-time codes minted in one behaviour of Spec.
MaxCodes == 1
\* The clock stops at MaxTime seconds.
MaxTime == 601
\* One-time codes minted in one behaviour of SpecCache: beyond the capacity.
MaxCacheCodes == 130
\* Calls of Server::new in one behaviour: a failed one and the next.
MaxConstructions == 2

(***************************************************************************)
(* Program constants.                                                      *)
(***************************************************************************)
\* const MAX_TOKEN_DURATION: Duration = Duration::from_secs(600)
MAX_TOKEN_DURATION == 600
\* pub const PROJECT_MEMBER_SCHEMA: SchemaId = SchemaId(1)
PROJECT_MEMBER_SCHEMA == 1
\* pub const PROJECT_ID: &str = "project_id"
PROJECT_ID == "project_id"
\* LruCache::new(NonZeroUsize::new(128).expect("0 < 128"))
TokenCacheCapacity == 128

(***************************************************************************)
(* Values.  A text (Rust String) is a sequence of Unicode scalar values,   *)
(* a byte string (Vec<u8>) a sequence of 0..255; str::as_bytes gives the   *)
(* UTF-8 encoding of the text.                                             *)
(***************************************************************************)
None == "None"

\* IdentityIdentifier: two identities that enroller documents may list and
\* one that no document lists.
Identity == {"E1", "E2", "M1"}

EmptyMap == [k \in {} |-> k]

\* The UTF-8 encoding of one scalar value.
utf8(c) ==
    IF c < 128 THEN <<c>>
    ELSE IF c < 2048 THEN <<192 + (c \div 64), 128 + (c % 64)>>
    ELSE IF c < 65536
         THEN <<224 + (c \div 4096), 128 + ((c \div 64) % 64), 128 + (c % 64)>>
         ELSE <<240 + (c \div 262144), 128 + ((c \div 4096) % 64),
                128 + ((c \div 64) % 64), 128 + (c % 64)>>

RECURSIVE as_bytes(_)
as_bytes(s) == IF s = <<>> THEN <<>> ELSE utf8(Head(s)) \o as_bytes(Tail(s))

\* .iter().map(|(k, v)| (k.to_string(), v.as_bytes().to_vec())).collect()
attrs_to_bytes(m) == [k \in DOMAIN m |-> as_bytes(m[k])]

\* The attribute maps (HashMap<String, String>) that request bodies carry:
\* {"role": "m"} and {"project_id": "é", "team": "A"}.
AttrMaps == { ("role" :> <<109>>),
              ("project_id" :> <<233>>) @@ ("team" :> <<65>>) }

\* Server.project: the project identifier given at construction, b"p1".
project == <<112, 49>>

(***************************************************************************)
(* AttributesEntry::new(attrs, added, expires, attested_by)                *)
(***************************************************************************)
AttributesEntry(attrs, added, expires, attested_by) ==
    [attrs |-> attrs, added |-> added, expires |-> expires,
     attested_by |-> attested_by]

(***************************************************************************)
(* The frames.  A frame is a request header followed by the bytes of a     *)
(* body.  hdr.ok = FALSE is a frame whose header does not decode.          *)
(***************************************************************************)
ReqIds == {1, 2}

BadHeader == [ok |-> FALSE, id |-> 0, method |-> "Get", path |-> <<>>,
              has_body |-> FALSE]

Header(id, method, path, has_body) ==
    [ok |-> TRUE, id |-> id, method |-> method, path |-> path,
     has_body |-> has_body]

\* The bytes after the header, by the type they decode as.
NoBytes == [t |-> "none", attrs |-> EmptyMap, member |-> None, code |-> 0]
Garbage == [t |-> "garbage", attrs |-> EmptyMap, member |-> None, code |-> 0]
CreateToken(attrs) ==
    [t |-> "CreateToken", attrs |-> attrs, member |-> None, code |-> 0]
AddMember(member, attrs) ==
    [t |-> "AddMember", attrs |-> attrs, member |-> member, code |-> 0]
OneTimeCode(code) ==
    [t |-> "OneTimeCode", attrs |-> EmptyMap, member |-> None, code |-> code]

\* A message without IdentitySecureChannelLocalInfo has chan = None.
Message(chan, hdr, body) == [chan |-> chan, hdr |-> hdr, body |-> body]

\* No message handled yet.
NoMessage == Message(None, BadHeader, NoBytes)

(***************************************************************************)
(* The responses (ockam_core::api).                                        *)
(***************************************************************************)
EmptyBody == [t |-> "empty", message |-> "", code |-> 0, subject |-> None,
              schema |-> 0, attrs |-> EmptyMap]
ErrorBody(message) == [EmptyBody EXCEPT !.t = "error", !.message = message]
CodeBody(code) == [EmptyBody EXCEPT !.t = "code", !.code = code]
CredentialBody(crd) ==
    [EmptyBody EXCEPT !.t = "credential", !.subject = crd.subject,
                      !.schema = crd.schema, !.attrs = crd.attrs]

Response(status, re, body) ==
    [t |-> "sent", status |-> status, re |-> re, body |-> body]
\* handle_message returned Err(kind) and sent nothing.
Failed(kind) == [t |-> "err", status |-> kind, re |-> 0, body |-> EmptyBody]
\* No message handled yet.
NoOutcome == [t |-> "none", status |-> "", re |-> 0, body |-> EmptyBody]

Response_ok(req, body) == Response("Ok", req.id, body)
forbidden(req, message) == Response("Forbidden", req.id, ErrorBody(message))
internal_error(req, message) ==
    Response("InternalServerError", req.id, ErrorBody(message))
unknown_path(req) == Response("NotFound", req.id, ErrorBody(""))
invalid_method(req) == Response("MethodNotAllowed", req.id, ErrorBody(""))

(***************************************************************************)
(* The Client.  An operation builds one request, sends it with             *)
(* Context::send_and_receive and maps what comes back.                     *)
(***************************************************************************)
ClientOps == {"add_member", "create_token", "credential", "credential_with"}

\* The label the operation passes to Client::request, response and error.
label(op) ==
    IF op = "add_member" THEN "add-member"
    ELSE IF op = "create_token" THEN "create-token"
    ELSE "new-credential"

\* The frame of the operation's request.  arg holds the operation's
\* arguments: attrs, member, code.
client_request(op, id, arg) ==
    IF op = "add_member"
    THEN <<Header(id, "Post", <<"members">>, TRUE),
           AddMember(arg.member, arg.attrs)>>
    ELSE IF op = "create_token"
    THEN <<Header(id, "Post", <<"tokens">>, TRUE), CreateToken(arg.attrs)>>
    ELSE IF op = "credential"
    THEN <<Header(id, "Post", <<"credential">>, FALSE), NoBytes>>
    ELSE <<Header(id, "Post", <<"credential">>, TRUE), OneTimeCode(arg.code)>>

\* The type of body the operation decodes from an OK response; add_member
\* decodes none.
decoded(op) ==
    IF op = "create_token" THEN "code"
    ELSE IF op = "add_member" THEN "empty"
    ELSE "credential"

\* What may come back, apart from the responses above: bytes that are no
\* response, or a response with a body that is not what the client
\* decodes.
Undecodable == [t |-> "bytes", status |-> "", re |-> 0, body |-> EmptyBody]
GarbageBody == [EmptyBody EXCEPT !.t = "garbage"]

\* What an operation returns: Ok(value), or an Err of send_and_receive
\* ("Transport"), of a decoder ("Decode") or of fn error ("Protocol",
\* with a message).
Returned(t, value, message) ==
    [t |-> t, value |-> value, message |-> message]

\* Mutant: the error carries the label, whatever the server said.
response_error_label_only(lbl, res) == Returned("Protocol", EmptyBody, lbl)

\* fn error(label, res, dec).  An Error without message has message "".
response_error(lbl, res) ==
    IF res.body.t # "empty"
    THEN IF res.body.t # "error"
         THEN Returned("Decode", EmptyBody, "")
         ELSE Returned("Protocol", EmptyBody,
                       IF res.body.message # "" THEN res.body.message
                       ELSE lbl)
    ELSE Returned("Protocol", EmptyBody, lbl)

\* What the operation makes of `reply`, the result of send_and_receive: a
\* response, other bytes, or nothing (the handler returned Err, or the
\* response was lost).
client_result(op, reply) ==
    IF reply.t = "bytes" THEN Returned("Decode", EmptyBody, "")
    ELSE IF reply.t # "sent" THEN Returned("Transport", EmptyBody, "")
    ELSE IF reply.status = "Ok"
    THEN IF op = "add_member" THEN Returned("Ok", EmptyBody, "")
         ELSE IF reply.body.t = decoded(op)
         THEN Returned("Ok", reply.body, "")
         ELSE Returned("Decode", EmptyBody, "")
    ELSE response_error(label(op), reply)

\* The client record of a call.
Called(op, reply) ==
    [op |-> op, reply |-> reply, returned |-> client_result(op, reply)]

\* No operation called yet.
NotCalled ==
    [op |-> "none", reply |-> NoOutcome,
     returned |-> Returned("none", EmptyBody, "")]

(***************************************************************************)
(* The state of the Server, and of what it reads.                          *)
(***************************************************************************)
VARIABLES
    store,            \* Server.store: identity -> AttributesEntry
    filename,         \* Server.filename: the enroller file's path, or None
    enrollers,        \* Server.enrollers: the keys of the enroller map
    reload_enrollers, \* Server.reload_enrollers
    tokens,           \* Server.tokens: the LRU cache, least recently used first
    file,             \* the contents of the file at `filename`
    now,              \* the clock, in seconds
    minted,           \* how many one-time codes OneTimeCode::new has drawn
    cited,            \* history: the codes that redemptions have looked up
    received,         \* the message handled last
    outcome,          \* the response the last handled message was answered
                      \* with, or the error handle_message returned
    legacy,           \* the identity's authenticated storage: the records
                      \* under the attribute LEGACY_MEMBER, by key
    constructed,      \* what the last call of Server::new returned, and
                      \* what it was called with
    mailbox,          \* the messages that arrived at the worker's address
                      \* and wait to be handled, the earliest first
    emitted,          \* history: what each handled message was answered
                      \* with, in the order of the answers
    client            \* the Client: the operation called last, what came
                      \* back on its route and what the operation returned

vars == <<store, filename, enrollers, reload_enrollers, tokens, file, now,
          minted, cited, received, outcome, legacy, constructed, mailbox,
          emitted, client>>

\* What a run of handle_message may change.
Server(e, t, s, n, c, o) ==
    [enrollers |-> e, tokens |-> t, store |-> s, minted |-> n, cited |-> c,
     outcome |-> o]

\* The state as it is, with outcome o.
Same(o) == Server(enrollers, tokens, store, minted, cited, o)

(***************************************************************************)
(* lru::LruCache, as the Server uses it: put and pop.                      *)
(***************************************************************************)
LruWithout(cache, code) == SelectSeq(cache, LAMBDA tkn : tkn.code # code)

LruContains(cache, code) == \E i \in 1..Len(cache) : cache[i].code = code

LruPeek(cache, code) ==
    cache[CHOOSE i \in 1..Len(cache) : cache[i].code = code]

\* Mutant: a full cache grows.
LruPut_unbounded(cache, tkn) ==
    IF LruContains(cache, tkn.code)
    THEN Append(LruWithout(cache, tkn.code), tkn)
    ELSE Append(cache, tkn)

\* Mutant: the cache evicts one entry short of its capacity.
LruPut_early(cache, tkn) ==
    IF LruContains(cache, tkn.code)
    THEN Append(LruWithout(cache, tkn.code), tkn)
    ELSE IF Len(cache) >= TokenCacheCapacity - 1
         THEN Append(Tail(cache), tkn)
         ELSE Append(cache, tkn)

\* Mutant: a full cache evicts the most recently used entry.
LruPut_evicts_newest(cache, tkn) ==
    IF LruContains(cache, tkn.code)
    THEN Append(LruWithout(cache, tkn.code), tkn)
    ELSE IF Len(cache) >= TokenCacheCapacity
         THEN Append(SubSeq(cache, 1, Len(cache) - 1), tkn)
         ELSE Append(cache, tkn)

\* put: an existing key is updated and becomes the most recently used; a new
\* key in a full cache replaces the least recently used entry.
LruPut(cache, tkn) ==
    IF LruContains(cache, tkn.code)
    THEN Append(LruWithout(cache, tkn.code), tkn)
    ELSE IF Len(cache) >= TokenCacheCapacity
         THEN Append(Tail(cache), tkn)
         ELSE Append(cache, tkn)

\* Mutant: the lookup leaves the token in the cache.
LruPop_keeps(cache, code) == cache

\* pop: the cache without the key.
LruPop(cache, code) == LruWithout(cache, code)

\* struct Token { attrs, generated_by, time }, with the key it is cached under.
Token(code, attrs, generated_by, time) ==
    [code |-> code, attrs |-> attrs, generated_by |-> generated_by,
     time |-> time]

(***************************************************************************)
(* The attribute store: a map from identity to entry.                      *)
(***************************************************************************)
\* Mutant: the store keeps the entry an identity already has.
put_attributes_if_absent(s, id, entry) == s @@ (id :> entry)

\* Mutant: the attributes an identity already has are kept beside the new.
put_attributes_merging(s, id, entry) ==
    (id :> IF id \in DOMAIN s
           THEN [entry EXCEPT !.attrs = entry.attrs @@ s[id].attrs]
           ELSE entry) @@ s

put_attributes(s, id, entry) == (id :> entry) @@ s

has_attributes(s, id) == id \in DOMAIN s

(***************************************************************************)
(* Credential builder (ockam_identity): with_attribute puts the pair into  *)
(* the attribute map, replacing the value of a name already there.         *)
(***************************************************************************)
builder(subject) == [subject |-> subject, schema |-> 0, attrs |-> EmptyMap]

with_schema(crd, schema) == [crd EXCEPT !.schema = schema]

with_attribute(crd, name, value) ==
    [crd EXCEPT !.attrs = (name :> value) @@ crd.attrs]

\* The fold of with_attribute over a map; the order of a HashMap's or a
\* BTreeMap's iteration does not matter, the names being distinct.
with_attributes(crd, m) == [crd EXCEPT !.attrs = m @@ crd.attrs]

\* Mutant: project_id is put first, so an attribute of that name replaces it.
credential_from_token_project_first(from, tkn) ==
    with_schema(
        with_attributes(with_attribute(builder(from), PROJECT_ID, project),
                        attrs_to_bytes(tkn.attrs)),
        PROJECT_MEMBER_SCHEMA)

\* The credential of a new member, from the token it redeemed.
credential_from_token(from, tkn) ==
    with_attribute(
        with_schema(with_attributes(builder(from), attrs_to_bytes(tkn.attrs)),
                    PROJECT_MEMBER_SCHEMA),
        PROJECT_ID, project)

\* Mutant: project_id is put first, so an attribute of that name in the
\* entry replaces it.
credential_from_entry_project_first(from, entry) ==
    with_attributes(
        with_attribute(with_schema(builder(from), PROJECT_MEMBER_SCHEMA),
                       PROJECT_ID, project),
        entry.attrs)

\* The credential of a member, from its stored entry.
credential_from_entry(from, entry) ==
    with_attribute(
        with_attributes(with_schema(builder(from), PROJECT_MEMBER_SCHEMA),
                        entry.attrs),
        PROJECT_ID, project)

(***************************************************************************)
(* Server::parse_enrollers.  The input is an enroller document or, if it   *)
(* does not parse as one, a path; fs is the contents of the file there.    *)
(***************************************************************************)
EnrollersFile == "enrollers.json"

\* The documents: the key sets of the enroller maps they encode.
Docs == { {"E1"}, {"E1", "E2"} }

Document(doc) == [t |-> "doc", doc |-> doc]
Invalid == [t |-> "invalid", doc |-> {}]
Unreadable == [t |-> "unreadable", doc |-> {}]

Files == {Document(d) : d \in Docs} \cup {Invalid, Unreadable}

InlineInput(doc) == [t |-> "json", doc |-> doc]
PathInput == [t |-> "path", doc |-> {}]

\* Mutant: a file of the input's name is read before the input is parsed.
parse_enrollers_path_first(input, fs) ==
    IF fs.t = "doc"
    THEN [t |-> "Ok", filename |-> EnrollersFile, enrollers |-> fs.doc]
    ELSE IF input.t = "json"
    THEN [t |-> "Ok", filename |-> None, enrollers |-> input.doc]
    ELSE IF fs.t = "unreadable"
    THEN [t |-> "Io", filename |-> None, enrollers |-> {}]
    ELSE [t |-> "Invalid", filename |-> None, enrollers |-> {}]

parse_enrollers(input, fs) ==
    IF input.t = "json"
    THEN [t |-> "Ok", filename |-> None, enrollers |-> input.doc]
    ELSE IF fs.t = "unreadable"
    THEN [t |-> "Io", filename |-> None, enrollers |-> {}]
    ELSE IF fs.t = "invalid"
    THEN [t |-> "Invalid", filename |-> None, enrollers |-> {}]
    ELSE [t |-> "Ok", filename |-> EnrollersFile, enrollers |-> fs.doc]

(***************************************************************************)
(* Server::new: parse_enrollers, then the migration of the legacy member   *)
(* records into the attribute store.  The legacy storage maps a key to     *)
(* the data it holds under the attribute LEGACY_MEMBER; keys() lists the   *)
(* keys that hold such data, so that get finds data under each of them.    *)
(***************************************************************************)
\* The keys of the legacy storage: two identifiers and a key that is none.
LegacyKeys == {"M1", "E2", "k?"}

\* IdentityIdentifier::try_from(k) succeeds on the keys that are
\* identifiers, and gives the identifier the key spells.
is_identifier(k) == k \in Identity

\* The data under a key: the CBOR encoding of a HashMap<String, String>,
\* or bytes that are no such encoding.
LegacyMap(m) == [t |-> "map", attrs |-> m]
LegacyGarbage == [t |-> "garbage", attrs |-> EmptyMap]

LegacyData ==
    { LegacyMap(("project_id" :> <<233>>) @@ ("team" :> <<65>>)),
      LegacyGarbage }

\* The legacy storages a server may be built over.
LegacyStores == UNION { [ks -> LegacyData] : ks \in SUBSET LegacyKeys }

\* The orders in which keys() may list the keys.
KeyOrders(leg) ==
    { o \in [1..Cardinality(DOMAIN leg) -> DOMAIN leg] :
          \A i, j \in DOMAIN o : o[i] = o[j] => i = j }

\* The call of the legacy storage or of the attribute store that fails
\* during a construction, if one does.
NoFailure == <<"none", None>>

Failures(leg) ==
    {NoFailure, <<"keys", None>>}
    \cup {<<op, k>> : op \in {"get", "put", "del"}, k \in DOMAIN leg}

\* Mutant: the values are stored as the text they were, not as its bytes.
legacy_entry_text(m) == AttributesEntry(m, now, None, None)

\* AttributesEntry::new(attrs, Timestamp::now().unwrap(), None, None)
legacy_entry(m) == AttributesEntry(attrs_to_bytes(m), now, None, None)

Migrated(t, error, leg, st) ==
    [t |-> t, error |-> error, legacy |-> leg, store |-> st]

\* Mutant: a record whose deletion fails is left behind and the loop goes on.
RECURSIVE migrate_past_del(_, _, _, _)
migrate_past_del(keys, leg, st, fail) ==
    IF keys = <<>> THEN Migrated("Ok", "", leg, st)
    ELSE LET k == Head(keys) IN
         IF fail = <<"get", k>> THEN Migrated("Err", "get", leg, st)
         ELSE IF leg[k].t # "map" THEN Migrated("Err", "decode", leg, st)
         ELSE IF ~is_identifier(k) THEN Migrated("Err", "identifier", leg, st)
         ELSE IF fail = <<"put", k>> THEN Migrated("Err", "put", leg, st)
         ELSE LET st2 == put_attributes(st, k, legacy_entry(leg[k].attrs)) IN
              IF fail = <<"del", k>>
              THEN migrate_past_del(Tail(keys), leg, st2, fail)
              ELSE migrate_past_del(Tail(keys),
                                    [j \in DOMAIN leg \ {k} |-> leg[j]],
                                    st2, fail)

\* Mutant: the legacy record is deleted before its entry is written.
RECURSIVE migrate_del_first(_, _, _, _)
migrate_del_first(keys, leg, st, fail) ==
    IF keys = <<>> THEN Migrated("Ok", "", leg, st)
    ELSE LET k == Head(keys) IN
         IF fail = <<"get", k>> THEN Migrated("Err", "get", leg, st)
         ELSE IF leg[k].t # "map" THEN Migrated("Err", "decode", leg, st)
         ELSE IF ~is_identifier(k) THEN Migrated("Err", "identifier", leg, st)
         ELSE IF fail = <<"del", k>> THEN Migrated("Err", "del", leg, st)
         ELSE LET leg2 == [j \in DOMAIN leg \ {k} |-> leg[j]] IN
              IF fail = <<"put", k>> THEN Migrated("Err", "put", leg2, st)
              ELSE migrate_del_first(
                       Tail(keys), leg2,
                       put_attributes(st, k, legacy_entry(leg[k].attrs)),
                       fail)

\* for k in keys { get, decode, try_from, put_attributes, del }: each `?`
\* returns the error, with the records handled so far migrated and deleted.
RECURSIVE migrate(_, _, _, _)
migrate(keys, leg, st, fail) ==
    IF keys = <<>> THEN Migrated("Ok", "", leg, st)
    ELSE LET k == Head(keys) IN
         IF fail = <<"get", k>> THEN Migrated("Err", "get", leg, st)
         ELSE IF leg[k].t # "map" THEN Migrated("Err", "decode", leg, st)
         ELSE IF ~is_identifier(k) THEN Migrated("Err", "identifier", leg, st)
         ELSE IF fail = <<"put", k>> THEN Migrated("Err", "put", leg, st)
         ELSE LET st2 == put_attributes(st, k, legacy_entry(leg[k].attrs)) IN
              IF fail = <<"del", k>> THEN Migrated("Err", "del", leg, st2)
              ELSE migrate(Tail(keys), [j \in DOMAIN leg \ {k} |-> leg[j]],
                           st2, fail)

\* Server::new(project, store, enrollers, reload_enrollers, identity): the
\* server's fields if it returns Ok, and the two storages as it leaves them.
new(input, fs, reload, leg, st, keys, fail) ==
    LET parsed == parse_enrollers(input, fs)
        Err(error, l, s) ==
            [t |-> "Err", error |-> error, filename |-> None, enrollers |-> {},
             reload_enrollers |-> FALSE, legacy |-> l, store |-> s]
    IN  IF parsed.t # "Ok" THEN Err(parsed.t, leg, st)
        ELSE IF fail = <<"keys", None>> THEN Err("keys", leg, st)
        ELSE LET m == migrate(keys, leg, st, fail) IN
             IF m.t # "Ok" THEN Err(m.error, m.legacy, m.store)
             ELSE [t |-> "Ok", error |-> "", filename |-> parsed.filename,
                   enrollers |-> parsed.enrollers, reload_enrollers |-> reload,
                   legacy |-> m.legacy, store |-> m.store]

\* What the n-th call of Server::new returned, the enroller input it was
\* given and the call that failed in it; drawn (history) is the number of
\* codes that OneTimeCode::new had drawn by then, and attested (history)
\* the identities whose entry named an enroller when it was called.
Constructed(n, t, error, input, fail) ==
    [n |-> n, t |-> t, error |-> error, input |-> input, fail |-> fail,
     drawn |-> minted,
     attested |-> { id \in DOMAIN store : store[id].attested_by # None }]

\* Server::new has not been called.
NotConstructed ==
    Constructed(0, "none", "", [t |-> "none", doc |-> {}], NoFailure)

(***************************************************************************)
(* Server::check_enroller: the reload, then the membership test.           *)
(*   t = "Pass"     Ok(None)                                               *)
(*   t = "Refused"  Ok(Some(forbidden))                                    *)
(*   t = "Io", "Invalid"  Err(e), the map not assigned                     *)
(***************************************************************************)
\* Mutant: a server that has a path reloads, whatever the flag.
Reloads_unflagged == filename # None

\* self.reload_enrollers && self.filename.is_some()
Reloads == reload_enrollers /\ filename # None

\* Mutant: every peer passes the membership test.
check_enroller_open(req, enroller) ==
    IF Reloads /\ file.t = "unreadable"
    THEN [t |-> "Io", enrollers |-> enrollers]
    ELSE IF Reloads /\ file.t = "invalid"
    THEN [t |-> "Invalid", enrollers |-> enrollers]
    ELSE [t |-> "Pass", enrollers |-> IF Reloads THEN file.doc ELSE enrollers]

\* Mutant: membership is tested in the map as it was before the reload.
check_enroller_stale(req, enroller) ==
    IF Reloads /\ file.t = "unreadable"
    THEN [t |-> "Io", enrollers |-> enrollers]
    ELSE IF Reloads /\ file.t = "invalid"
    THEN [t |-> "Invalid", enrollers |-> enrollers]
    ELSE LET es == IF Reloads THEN file.doc ELSE enrollers
         IN  IF enroller \in enrollers
             THEN [t |-> "Pass", enrollers |-> es]
             ELSE [t |-> "Refused", enrollers |-> es]

\* Mutant: a reload that fails is skipped, and the map in memory decides.
check_enroller_fail_open(req, enroller) ==
    IF enroller \in enrollers
    THEN [t |-> "Pass", enrollers |-> enrollers]
    ELSE [t |-> "Refused", enrollers |-> enrollers]

check_enroller(req, enroller) ==
    IF Reloads /\ file.t = "unreadable"
    THEN [t |-> "Io", enrollers |-> enrollers]
    ELSE IF Reloads /\ file.t = "invalid"
    THEN [t |-> "Invalid", enrollers |-> enrollers]
    ELSE LET es == IF Reloads THEN file.doc ELSE enrollers
         IN  IF enroller \in es
             THEN [t |-> "Pass", enrollers |-> es]
             ELSE [t |-> "Refused", enrollers |-> es]

(***************************************************************************)
(* Server::on_request, one operator for each arm of its match.  env tells  *)
(* whether the calls of the store and of the signer the arm makes succeed. *)
(* A `?` on a failed call ends the run with Failed: what was assigned      *)
(* before it stays assigned.                                               *)
(***************************************************************************)
Envs ==
    { [store |-> TRUE, sign |-> TRUE, race |-> FALSE, send |-> TRUE],
      [store |-> FALSE, sign |-> TRUE, race |-> FALSE, send |-> TRUE],
      [store |-> TRUE, sign |-> FALSE, race |-> FALSE, send |-> TRUE] }

\* The attribute store is shared with the node's other services.  With
\* env.race another writer puts RacingEntry under the redeeming peer
\* between the server's put_attributes and its issue_credential.
RacingEntry == AttributesEntry(("role" :> <<120>>), now, None, None)

RaceEnvs ==
    { [store |-> TRUE, sign |-> TRUE, race |-> TRUE, send |-> TRUE],
      [store |-> TRUE, sign |-> FALSE, race |-> TRUE, send |-> TRUE] }

\* The route back to the sender is gone: Context::send fails.
LostEnvs ==
    { [store |-> TRUE, sign |-> TRUE, race |-> FALSE, send |-> FALSE] }

\* The store as the signing finds it.
raced(s, id, env) ==
    IF env.race THEN put_attributes(s, id, RacingEntry) ELSE s

\* The token that enroller `from` creates under code otc.
new_token(otc, from, att) == Token(otc, att.attrs, from, now)

\* Mutant: a request like an earlier one of the enroller, whose token is
\* still cached, is answered with the code of that token.
post_tokens_reusing(from, req, body) ==
    LET chk == check_enroller(req, from)
        like == { i \in 1..Len(tokens) :
                      /\ tokens[i].attrs = body.attrs
                      /\ tokens[i].generated_by = from }
    IN
    IF chk.t \in {"Io", "Invalid"}
    THEN Same(internal_error(req, chk.t))
    ELSE IF chk.t = "Refused"
    THEN Server(chk.enrollers, tokens, store, minted, cited,
                forbidden(req, "unauthorized enroller"))
    ELSE IF body.t # "CreateToken"
    THEN Server(chk.enrollers, tokens, store, minted, cited, Failed("decode"))
    ELSE IF like # {}
    THEN Server(chk.enrollers, tokens, store, minted, cited,
                Response_ok(req, CodeBody(
                    tokens[CHOOSE i \in like : TRUE].code)))
    ELSE LET otc == minted + 1
             tkn == new_token(otc, from, body)
         IN  Server(chk.enrollers, LruPut(tokens, tkn), store, otc, cited,
                    Response_ok(req, CodeBody(otc)))

\* Mutant: the body is decoded before the enroller is checked.
post_tokens_decode_first(from, req, body) ==
    IF body.t # "CreateToken"
    THEN Same(Failed("decode"))
    ELSE LET chk == check_enroller(req, from) IN
         IF chk.t \in {"Io", "Invalid"}
         THEN Same(internal_error(req, chk.t))
         ELSE IF chk.t = "Refused"
         THEN Server(chk.enrollers, tokens, store, minted, cited,
                     forbidden(req, "unauthorized enroller"))
         ELSE LET otc == minted + 1
                  tkn == new_token(otc, from, body)
              IN  Server(chk.enrollers, LruPut(tokens, tkn), store, otc,
                         cited, Response_ok(req, CodeBody(otc)))

\* ["tokens"]: an enroller wants to create an enrollment token.
post_tokens(from, req, body) ==
    LET chk == check_enroller(req, from) IN
    IF chk.t \in {"Io", "Invalid"}
    THEN Same(internal_error(req, chk.t))
    ELSE IF chk.t = "Refused"
    THEN Server(chk.enrollers, tokens, store, minted, cited,
                forbidden(req, "unauthorized enroller"))
    ELSE IF body.t # "CreateToken"
    THEN Server(chk.enrollers, tokens, store, minted, cited, Failed("decode"))
    ELSE LET otc == minted + 1
             tkn == new_token(otc, from, body)
         IN  Server(chk.enrollers, LruPut(tokens, tkn), store, otc, cited,
                    Response_ok(req, CodeBody(otc)))

\* Mutant: the entry does not name the enroller.
member_entry_unattested(from, add) ==
    AttributesEntry(attrs_to_bytes(add.attrs), now, None, None)

\* Mutant: the entry names the member, not the enroller.
member_entry_by_member(from, add) ==
    AttributesEntry(attrs_to_bytes(add.attrs), now, None, add.member)

\* The entry of a member that enroller `from` adds.
member_entry(from, add) ==
    AttributesEntry(attrs_to_bytes(add.attrs), now, None, from)

\* ["members"]: an enroller wants to add a member.
post_members(from, req, body, env) ==
    LET chk == check_enroller(req, from) IN
    IF chk.t \in {"Io", "Invalid"}
    THEN Same(internal_error(req, chk.t))
    ELSE IF chk.t = "Refused"
    THEN Server(chk.enrollers, tokens, store, minted, cited,
                forbidden(req, "unauthorized enroller"))
    ELSE IF body.t # "AddMember"
    THEN Server(chk.enrollers, tokens, store, minted, cited, Failed("decode"))
    ELSE LET entry == member_entry(from, body)
         IN  IF ~env.store
             THEN Server(chk.enrollers, tokens, store, minted, cited,
                         Failed("store"))
             ELSE Server(chk.enrollers, tokens,
                         put_attributes(store, body.member, entry), minted,
                         cited, Response_ok(req, EmptyBody))

\* Mutant: the age of the token is not looked at.
expired_never(tkn) == FALSE

\* Mutant: a token is expired from its 600th second on.
expired_at_boundary(tkn) == now - tkn.time >= MAX_TOKEN_DURATION

\* tkn.time.elapsed() > MAX_TOKEN_DURATION
expired(tkn) == now - tkn.time > MAX_TOKEN_DURATION

\* Mutant: the entry does not name the enroller that minted the token.
redeemed_entry_unattested(tkn) ==
    AttributesEntry(attrs_to_bytes(tkn.attrs), now, None, None)

\* Mutant: the entry names the minter only if it is an enroller still.
redeemed_entry_checked(tkn) ==
    AttributesEntry(attrs_to_bytes(tkn.attrs), now, None,
                    IF tkn.generated_by \in enrollers
                    THEN tkn.generated_by ELSE None)

\* The entry of the member that redeems tkn.
redeemed_entry(tkn) ==
    AttributesEntry(attrs_to_bytes(tkn.attrs), now, None, tkn.generated_by)

\* Mutant: the credential is built from the entry as the store holds it.
first_credential_from_store(from, tkn, s) ==
    credential_from_entry(from, s[from])

\* The credential of a redemption is built from the token, whatever the
\* store s holds by then (line 232: "TODO: use the entry not the token").
first_credential(from, tkn, s) == credential_from_token(from, tkn)

\* Mutant: the credential is signed before the entry is written, so that
\* a failure of the signer leaves no entry.
post_credential_with_sign_first(from, req, body, env) ==
    IF body.t # "OneTimeCode"
    THEN Same(Failed("decode"))
    ELSE LET popped == LruPop(tokens, body.code)
             looked == cited \cup {body.code}
         IN
         IF ~LruContains(tokens, body.code)
         THEN Server(enrollers, popped, store, minted, looked,
                     forbidden(req, "unknown token"))
         ELSE LET tkn == LruPeek(tokens, body.code) IN
         IF expired(tkn)
         THEN Server(enrollers, popped, store, minted, looked,
                     forbidden(req, "expired token"))
         ELSE IF ~env.sign
         THEN Server(enrollers, popped, store, minted, looked,
                     Failed("sign"))
         ELSE IF ~env.store
         THEN Server(enrollers, popped, store, minted, looked,
                     Failed("store"))
         ELSE LET written == raced(put_attributes(store, from,
                                                  redeemed_entry(tkn)),
                                   from, env)
              IN  Server(enrollers, popped, written, minted, looked,
                         Response_ok(req, CredentialBody(
                             first_credential(from, tkn, written))))

\* ["credential"] if req.has_body(): a new member with an enrollment token
\* wants its first credential.
post_credential_with(from, req, body, env) ==
    IF body.t # "OneTimeCode"
    THEN Same(Failed("decode"))
    ELSE LET popped == LruPop(tokens, body.code)
             looked == cited \cup {body.code}
         IN
         IF ~LruContains(tokens, body.code)
         THEN Server(enrollers, popped, store, minted, looked,
                     forbidden(req, "unknown token"))
         ELSE LET tkn == LruPeek(tokens, body.code) IN
         IF expired(tkn)
         THEN Server(enrollers, popped, store, minted, looked,
                     forbidden(req, "expired token"))
         ELSE LET entry == redeemed_entry(tkn)
                  written == raced(put_attributes(store, from, entry), from,
                                   env)
              IN
              IF ~env.store
              THEN Server(enrollers, popped, store, minted, looked,
                          Failed("store"))
              ELSE IF ~env.sign
              THEN Server(enrollers, popped, written, minted, looked,
                          Failed("sign"))
              ELSE Server(enrollers, popped, written, minted, looked,
                          Response_ok(req, CredentialBody(
                              first_credential(from, tkn, written))))

\* Mutant: a peer without entry is given a credential without attributes.
post_credential_anyone(from, req, env) ==
    Same(Response_ok(req, CredentialBody(
        credential_from_entry(from,
            IF has_attributes(store, from) THEN store[from]
            ELSE AttributesEntry(EmptyMap, now, None, None)))))

\* Mutant: the enrollers are reloaded when a member asks for a credential.
post_credential_reloading(from, req, env) ==
    LET es == check_enroller(req, from).enrollers
        serve(o) == Server(es, tokens, store, minted, cited, o)
    IN
    IF ~env.store
    THEN serve(internal_error(req, "store"))
    ELSE IF ~has_attributes(store, from)
    THEN serve(forbidden(req, "unauthorized member"))
    ELSE IF ~env.sign
    THEN serve(Failed("sign"))
    ELSE serve(Response_ok(req, CredentialBody(
                   credential_from_entry(from, store[from]))))

\* Mutant: an enroller without entry is given a credential without
\* attributes of its own.
post_credential_enroller_bypass(from, req, env) ==
    IF ~env.store
    THEN Same(internal_error(req, "store"))
    ELSE IF ~has_attributes(store, from) /\ from \notin enrollers
    THEN Same(forbidden(req, "unauthorized member"))
    ELSE IF ~env.sign
    THEN Same(Failed("sign"))
    ELSE Same(Response_ok(req, CredentialBody(
                  credential_from_entry(from,
                      IF has_attributes(store, from) THEN store[from]
                      ELSE AttributesEntry(EmptyMap, now, None, None)))))

\* ["credential"]: a member wants a credential.
post_credential(from, req, env) ==
    IF ~env.store
    THEN Same(internal_error(req, "store"))
    ELSE IF ~has_attributes(store, from)
    THEN Same(forbidden(req, "unauthorized member"))
    ELSE IF ~env.sign
    THEN Same(Failed("sign"))
    ELSE Same(Response_ok(req, CredentialBody(
                  credential_from_entry(from, store[from]))))

\* Request::path_segments::<2>(): the path split at '/', the second segment
\* keeping what follows it.  A path is modelled by its segments.
path_segments(path) == IF Len(path) <= 2 THEN path ELSE SubSeq(path, 1, 2)

on_request(from, req, body, env) ==
    IF ~req.ok
    THEN Same(Failed("decode"))
    ELSE IF req.method # "Post"
    THEN Same(invalid_method(req))
    ELSE LET segments == path_segments(req.path) IN
         IF segments = <<"tokens">>
         THEN post_tokens(from, req, body)
         ELSE IF segments = <<"members">>
         THEN post_members(from, req, body, env)
         ELSE IF segments = <<"credential">> /\ req.has_body
         THEN post_credential_with(from, req, body, env)
         ELSE IF segments = <<"credential">>
         THEN post_credential(from, req, env)
         ELSE Same(unknown_path(req))

(***************************************************************************)
(* Worker::handle_message                                                  *)
(***************************************************************************)
\* c.send(m.return_route(), r): a response that cannot be sent makes
\* handle_message return Err; what the handler did stays done.
send(r, env) ==
    IF r.outcome.t = "sent" /\ ~env.send
    THEN [r EXCEPT !.outcome = Failed("send")]
    ELSE r

\* Mutant: the request is served whether or not it came over a secure
\* channel.
handle_message_ungated(m, env) ==
    send(on_request(m.chan, m.hdr, m.body, env), env)

\* Mutant: the refusal of a message without secure channel does not name
\* the request.
handle_message_unreferenced(m, env) ==
    IF m.chan # None
    THEN send(on_request(m.chan, m.hdr, m.body, env), env)
    ELSE IF ~m.hdr.ok
    THEN Same(Failed("decode"))
    ELSE send(Same(forbidden(BadHeader, "secure channel required")), env)

handle_message(m, env) ==
    IF m.chan # None
    THEN send(on_request(m.chan, m.hdr, m.body, env), env)
    ELSE IF ~m.hdr.ok
    THEN Same(Failed("decode"))
    ELSE send(Same(forbidden(m.hdr, "secure channel required")), env)

(***************************************************************************)
(* The messages the model sends to the worker: from the peers `peers`      *)
(* (None: a message without secure channel), with attribute maps from      *)
(* `maps`, adding the members `members`, citing the codes `codes`.         *)
(***************************************************************************)
TokensFrames(ids, maps) ==
    { <<Header(id, "Post", <<"tokens">>, TRUE), b>> :
          id \in ids, b \in {CreateToken(a) : a \in maps} \cup {Garbage} }

MembersFrames(ids, members, maps) ==
    { <<Header(id, "Post", <<"members">>, TRUE), b>> :
          id \in ids,
          b \in {AddMember(i, a) : i \in members, a \in maps}
                \cup {Garbage} }

RedeemFrames(ids, codes) ==
    { <<Header(id, "Post", <<"credential">>, TRUE), b>> :
          id \in ids, b \in {OneTimeCode(c) : c \in codes} \cup {Garbage} }

CredentialFrames(ids) ==
    { <<Header(id, "Post", <<"credential">>, FALSE), b>> :
          id \in ids, b \in {NoBytes, OneTimeCode(0)} }

OtherFrames(ids) ==
    { <<Header(id, "Post", p, FALSE), NoBytes>> :
          id \in ids, p \in {<<"other">>, <<"tokens", "x">>} }
    \cup
    { <<Header(id, "Get", p, FALSE), NoBytes>> :
          id \in ids, p \in {<<"tokens">>, <<"other">>} }
    \cup
    { <<BadHeader, Garbage>> }

MessagesOf(peers, frames) ==
    { Message(chan, f[1], f[2]) : chan \in peers, f \in frames }

\* A redemption cites a code that was minted (1..minted) or code 0, which
\* is never minted: a client cannot cite a code that OneTimeCode::new has
\* yet to draw.
Cited == 0..minted

\* The messages of Spec: one enroller, one member, with and without secure
\* channel.
Messages ==
    MessagesOf({"E1", "M1", None},
               TokensFrames({1}, AttrMaps)
               \cup MembersFrames({1}, {"M1"}, AttrMaps)
               \cup RedeemFrames({1}, Cited)
               \cup CredentialFrames(ReqIds)
               \cup OtherFrames(ReqIds))

\* The calls of the store and of the signer fail or succeed; a message that
\* reaches neither has one outcome.
OutcomesOf(m) ==
    IF m.chan # None /\ m.hdr.ok /\ m.hdr.method = "Post"
       /\ m.hdr.path \in {<<"members">>, <<"credential">>}
    THEN Envs
    ELSE {[store |-> TRUE, sign |-> TRUE, race |-> FALSE, send |-> TRUE]}

(***************************************************************************)
(* The actions.                                                            *)
(***************************************************************************)
\* handle_message(&mut self, ctx, m) runs on message m, to its end.
Serve(m, envs) ==
    /\ constructed.t = "Ok"
    /\ \E env \in envs : \E r \in {handle_message(m, env)} :
        /\ enrollers' = r.enrollers
        /\ tokens' = r.tokens
        /\ store' = r.store
        /\ minted' = r.minted
        /\ cited' = r.cited
        /\ outcome' = r.outcome
        /\ received' = m
        /\ UNCHANGED <<filename, reload_enrollers, file, now, legacy,
                       constructed>>

\* The worker handles message m, handed to it as it arrives.
Handle(m, envs) ==
    Serve(m, envs) /\ UNCHANGED <<mailbox, emitted, client>>

HandleMessage(m) == Handle(m, OutcomesOf(m))

\* Mutant: the server that is built takes the cache as it finds it.
LruNew_kept == tokens

\* LruCache::new(NonZeroUsize::new(128)): an empty cache.
LruNew == <<>>

\* start_direct_authenticator_service_impl calls Server::new, and starts
\* the worker if it returned a server.
New(input, reload, keys, fail) ==
    /\ constructed.t # "Ok"
    /\ constructed.n < MaxConstructions
    /\ \E r \in {new(input, file, reload, legacy, store, keys, fail)} :
        /\ constructed' = Constructed(constructed.n + 1, r.t, r.error, input,
                                      fail)
        /\ legacy' = r.legacy
        /\ store' = r.store
        /\ IF r.t = "Ok"
           THEN /\ filename' = r.filename
                /\ enrollers' = r.enrollers
                /\ reload_enrollers' = r.reload_enrollers
                /\ tokens' = LruNew
           ELSE UNCHANGED <<filename, enrollers, reload_enrollers, tokens>>
        /\ UNCHANGED <<file, now, minted, cited, received, outcome, mailbox,
                       emitted, client>>

\* The node's process is killed.  The server's fields, the messages that
\* wait and the registry of the node's services are gone with it; the
\* attribute store, the legacy storage and the enroller file stay.  (The
\* variables of the fields keep their values, which nothing reads until
\* Server::new assigns them.)
Stop ==
    /\ constructed.t = "Ok"
    /\ constructed' = [constructed EXCEPT !.t = "Stopped"]
    /\ mailbox' = <<>>
    /\ UNCHANGED <<store, filename, enrollers, reload_enrollers, tokens, file,
                   now, minted, cited, received, outcome, legacy, emitted,
                   client>>

\* Time passes.
TickSteps == {600, 601}

Tick(d) ==
    /\ now + d <= MaxTime
    /\ now' = now + d
    /\ UNCHANGED <<store, filename, enrollers, reload_enrollers, tokens, file,
                   minted, cited, received, outcome, legacy, constructed,
                   mailbox, emitted, client>>

\* Somebody rewrites, damages or removes the enroller file.
WriteFile(f) ==
    /\ filename # None
    /\ f # file
    /\ file' = f
    /\ UNCHANGED <<store, filename, enrollers, reload_enrollers, tokens, now,
                   minted, cited, received, outcome, legacy, constructed,
                   mailbox, emitted, client>>

(***************************************************************************)
(* The state after Server::new(project, store, enrollers, reload, ident),   *)
(* with no legacy member data to migrate and an empty store.               *)
(***************************************************************************)
InitWith(inputs, reloads) ==
    \E input \in inputs, fs \in Files :
        LET parsed == parse_enrollers(input, fs) IN
        /\ parsed.t = "Ok"
        /\ filename = parsed.filename
        /\ enrollers = parsed.enrollers
        /\ file = IF input.t = "path" THEN fs ELSE Unreadable
        /\ reload_enrollers \in reloads
        /\ store = EmptyMap
        /\ tokens = <<>>
        /\ now = 0
        /\ minted = 0
        /\ cited = {}
        /\ received = NoMessage
        /\ outcome = NoOutcome
        /\ legacy = EmptyMap
        /\ constructed = Constructed(1, "Ok", "", input, NoFailure)
        /\ mailbox = <<>>
        /\ emitted = <<>>
        /\ client = NotCalled

(***************************************************************************)
(* Spec: the enrollment protocol under the enroller document {"E1"}.       *)
(***************************************************************************)
Init == InitWith({InlineInput({"E1"})}, {FALSE})

Next ==
    \/ \E m \in Messages : HandleMessage(m) /\ minted' <= MaxCodes
    \/ \E d \in TickSteps : Tick(d)

Spec == Init /\ [][Next]_vars

(***************************************************************************)
(* SpecDirectory: the enroller directory.  The enrollers are given inline  *)
(* or by path, with and without reload, and the file is rewritten, damaged *)
(* and removed while two enrollers and a member send requests.             *)
(***************************************************************************)
Inputs == {InlineInput(d) : d \in Docs} \cup {PathInput}

InitDirectory == InitWith(Inputs, BOOLEAN)

OneMap == { ("role" :> <<109>>) }

MessagesDirectory ==
    MessagesOf({"E1", "E2", "M1"},
               TokensFrames({1}, OneMap) \cup MembersFrames({2}, {"M1"}, OneMap))
    \cup
    MessagesOf({"M1"}, RedeemFrames({1}, Cited) \cup CredentialFrames({2}))

NextDirectory ==
    \/ \E m \in MessagesDirectory : HandleMessage(m) /\ minted' <= MaxCodes
    \/ \E f \in Files : WriteFile(f)

SpecDirectory == InitDirectory /\ [][NextDirectory]_vars

(***************************************************************************)
(* SpecCache: the token cache at its capacity.  One enroller mints code    *)
(* after code; a member redeems the first code minted or the second, at    *)
(* any time: before the cache is full, once it is full, after the code     *)
(* was evicted.                                                            *)
(***************************************************************************)
InitCache == InitWith({InlineInput({"E1"})}, {FALSE})

CacheCited == {1, 2}

MessagesCache ==
    MessagesOf({"E1"}, TokensFrames({1}, OneMap))
    \cup MessagesOf({"M1"}, RedeemFrames({1}, CacheCited \cap Cited))

NextCache ==
    \E m \in MessagesCache : HandleMessage(m) /\ minted' <= MaxCacheCodes

SpecCache == InitCache /\ [][NextCache]_vars

(***************************************************************************)
(* SpecConstruction: the node builds the server over a legacy storage and  *)
(* an attribute store that hold records already, with the enrollers given  *)
(* inline or by path; a construction that failed is tried again.  Once     *)
(* the server runs, two peers ask for their credentials.                   *)
(***************************************************************************)
\* The attribute stores a server may be built over: empty, or with an entry
\* that an earlier server wrote for M1.
StoresBefore ==
    { EmptyMap,
      "M1" :> AttributesEntry(("role" :> <<109>>), 0, None, "E1") }

\* The enroller input: a document, or a text that is none.  Whichever it
\* is, there may be a file of that name.
InputsConstruction == {InlineInput({"E1"}), PathInput}

FilesConstruction == {Document({"E1", "E2"}), Invalid, Unreadable}

InitConstruction ==
    /\ legacy \in LegacyStores
    /\ store \in StoresBefore
    /\ file \in FilesConstruction
    /\ minted = 0
    /\ constructed = NotConstructed
    /\ filename = None
    /\ enrollers = {}
    /\ reload_enrollers = FALSE
    /\ tokens = <<>>
    /\ now = 0
    /\ cited = {}
    /\ received = NoMessage
    /\ outcome = NoOutcome
    /\ mailbox = <<>>
    /\ emitted = <<>>
    /\ client = NotCalled

MessagesConstruction == MessagesOf({"M1", "E2"}, CredentialFrames({1}))

NextConstruction ==
    \/ \E input \in InputsConstruction, reload \in BOOLEAN :
           \E keys \in KeyOrders(legacy), fail \in Failures(legacy) :
               New(input, reload, keys, fail)
    \/ \E m \in MessagesConstruction : HandleMessage(m)

SpecConstruction == InitConstruction /\ [][NextConstruction]_vars

(***************************************************************************)
(* SpecRace: the enrollment protocol of Spec, with another writer of the   *)
(* attribute store that may overwrite the entry of a redeeming peer        *)
(* between the server's write and the signing of the credential, and with  *)
(* responses to redemptions that cannot be sent.                           *)
(***************************************************************************)
InitRace == InitWith({InlineInput({"E1"})}, {FALSE})

MessagesRace ==
    MessagesOf({"E1"}, TokensFrames(ReqIds, AttrMaps))
    \cup MessagesOf({"M1"}, RedeemFrames(ReqIds, Cited)
                            \cup CredentialFrames(ReqIds))

\* In a redemption the other writer may act, and the response may be lost.
RaceOutcomesOf(m) ==
    IF m.hdr.path = <<"credential">> /\ m.hdr.has_body
    THEN Envs \cup RaceEnvs \cup LostEnvs
    ELSE OutcomesOf(m)

NextRace ==
    \/ \E m \in MessagesRace :
           Handle(m, RaceOutcomesOf(m)) /\ minted' <= MaxCodes
    \/ \E d \in TickSteps : Tick(d)

SpecRace == InitRace /\ [][NextRace]_vars

(***************************************************************************)
(* SpecMailbox: the worker's mailbox.  Messages arrive at the address of   *)
(* the worker while it handles another one; the relay of the node hands    *)
(* them to handle_message one at a time, and handle_message borrows the    *)
(* server mutably until it returns.                                        *)
(***************************************************************************)
MaxArrivals == 3

\* How many messages have arrived so far.
Arrived == Len(emitted) + Len(mailbox)

\* Mutant: the relay hands over the message that arrived last.
receive_newest(q) ==
    [message |-> q[Len(q)], rest |-> SubSeq(q, 1, Len(q) - 1)]

\* The relay takes the message that arrived earliest.
receive(q) == [message |-> Head(q), rest |-> Tail(q)]

\* Message m arrives and waits.
Arrive(m) ==
    /\ constructed.t = "Ok"
    /\ Arrived < MaxArrivals
    /\ mailbox' = Append(mailbox, [seq |-> Arrived + 1, message |-> m])
    /\ UNCHANGED <<store, filename, enrollers, reload_enrollers, tokens, file,
                   now, minted, cited, received, outcome, legacy, constructed,
                   emitted, client>>

\* The worker is handed the next message and handles it to the end.
Receive ==
    /\ mailbox # <<>>
    /\ \E r \in {receive(mailbox)} :
        /\ Serve(r.message.message, OutcomesOf(r.message.message))
        /\ mailbox' = r.rest
        /\ emitted' = Append(emitted, [seq |-> r.message.seq,
                                       message |-> r.message.message,
                                       outcome |-> outcome',
                                       at |-> now])
        /\ UNCHANGED client

\* The same, where the response to a redemption may be lost.
LossyOutcomesOf(m) ==
    IF m.hdr.path = <<"credential">> /\ m.hdr.has_body
    THEN Envs \cup LostEnvs
    ELSE OutcomesOf(m)

ReceiveLossy ==
    /\ mailbox # <<>>
    /\ \E r \in {receive(mailbox)} :
        /\ Serve(r.message.message, LossyOutcomesOf(r.message.message))
        /\ mailbox' = r.rest
        /\ emitted' = Append(emitted, [seq |-> r.message.seq,
                                       message |-> r.message.message,
                                       outcome |-> outcome',
                                       at |-> now])
        /\ UNCHANGED client

InitMailbox == InitWith({InlineInput({"E1"})}, {FALSE})

MessagesMailbox ==
    MessagesOf({"E1"}, TokensFrames({1}, OneMap))
    \cup MessagesOf({"M1"}, RedeemFrames({2}, Cited))

NextMailbox ==
    \/ \E m \in MessagesMailbox : Arrive(m)
    \/ Receive /\ minted' <= MaxCodes

SpecMailbox == InitMailbox /\ [][NextMailbox]_vars

(***************************************************************************)
(* SpecMembers: two enrollers add the same member, with the same and with  *)
(* different attributes, again and again while time passes.  The messages  *)
(* go through the mailbox, so that `emitted` tells what was answered       *)
(* before.                                                                 *)
(***************************************************************************)
InitMembers == InitWith({InlineInput({"E1", "E2"})}, {FALSE})

MessagesMembers ==
    MessagesOf({"E1", "E2"}, MembersFrames({1}, {"M1"}, AttrMaps))

NextMembers ==
    \/ \E m \in MessagesMembers : Arrive(m)
    \/ Receive
    \/ \E d \in TickSteps : Tick(d)

SpecMembers == InitMembers /\ [][NextMembers]_vars

(***************************************************************************)
(* SpecRestart: the node is stopped and started again with the same        *)
(* enrollers, over the same attribute store.  Before and after, the        *)
(* enroller mints and adds the member, and the member asks for its         *)
(* credential, with codes and without.  No call of the store or of the     *)
(* signer fails.                                                           *)
(***************************************************************************)
InitRestart == InitWith({InlineInput({"E1"})}, {FALSE})

MessagesRestart ==
    MessagesOf({"E1"}, TokensFrames({1}, OneMap)
                       \cup MembersFrames({1}, {"M1"}, OneMap))
    \cup MessagesOf({"M1"}, RedeemFrames({1}, Cited)
                            \cup CredentialFrames({1}))

NextRestart ==
    \/ \E m \in MessagesRestart :
           Handle(m, {e \in Envs : e.store /\ e.sign})
               /\ minted' <= MaxCodes
    \/ Stop
    \/ New(constructed.input, FALSE, <<>>, NoFailure)

SpecRestart == InitRestart /\ [][NextRestart]_vars

(***************************************************************************)
(* SpecClient: clients call the four operations over routes that end at    *)
(* the server, with and without secure channel, and over routes that end   *)
(* at some other worker, which answers as it likes.                        *)
(***************************************************************************)
InitClient == InitWith({InlineInput({"E1"})}, {FALSE})

ClientArgs ==
    { [attrs |-> a, member |-> "M1", code |-> c] : a \in OneMap, c \in Cited }

\* A client at peer p calls op; its route ends at the server.
Call(p, op, id, arg) ==
    \E f \in {client_request(op, id, arg)} :
        \E m \in {Message(p, f[1], f[2])} :
            /\ Serve(m, OutcomesOf(m) \cup LostEnvs)
            /\ client' = Called(op, outcome')
            /\ UNCHANGED <<mailbox, emitted>>

\* What a worker that is not the server may answer.
Replies ==
    { Undecodable }
    \cup { Response(st, 1, b) :
               st \in {"Ok", "NotFound"},
               b \in {EmptyBody, ErrorBody(""), CodeBody(1), GarbageBody} }

\* A client calls op over a route that ends elsewhere, and is answered.
Reply(op, reply) ==
    /\ client' = Called(op, reply)
    /\ UNCHANGED <<store, filename, enrollers, reload_enrollers, tokens, file,
                   now, minted, cited, received, outcome, legacy, constructed,
                   mailbox, emitted>>

NextClient ==
    \/ \E p \in {"E1", "M1", None}, op \in ClientOps, arg \in ClientArgs :
           Call(p, op, 1, arg) /\ minted' <= MaxCodes
    \/ \E op \in ClientOps, reply \in Replies : Reply(op, reply)

SpecClient == InitClient /\ [][NextClient]_vars

(***************************************************************************)
(* SpecEnrollment: a member's way to its credentials, through the mailbox  *)
(* so that `emitted` tells what was answered before and when.  The         *)
(* enroller mints codes and adds the member; the member redeems the codes  *)
(* minted and asks for its credential without code, while time passes;     *)
(* the store and the signer may fail and the response to a redemption may  *)
(* be lost.                                                                *)
(***************************************************************************)
InitEnrollment == InitWith({InlineInput({"E1"})}, {FALSE})

MessagesEnrollment ==
    MessagesOf({"E1"},
               { <<Header(1, "Post", <<"tokens">>, TRUE), CreateToken(a)>> :
                     a \in AttrMaps }
               \cup { <<Header(1, "Post", <<"members">>, TRUE),
                        AddMember("M1", a)>> : a \in OneMap })
    \cup
    MessagesOf({"M1"},
               { <<Header(2, "Post", <<"credential">>, TRUE),
                   OneTimeCode(c)>> : c \in 1..minted }
               \cup { <<Header(2, "Post", <<"credential">>, FALSE),
                        NoBytes>> })

NextEnrollment ==
    \/ \E m \in MessagesEnrollment : Arrive(m)
    \/ ReceiveLossy /\ minted' <= MaxCodes
    \/ \E d \in TickSteps : Tick(d)

SpecEnrollment == InitEnrollment /\ [][NextEnrollment]_vars

(***************************************************************************)
(* SpecFrames: every endpoint of a reloading server.  An enroller and a    *)
(* member post to every path, known and unknown, with every method, while  *)
(* the enrollers' file is rewritten: a request that reloads shows in the   *)
(* map in memory.                                                          *)
(***************************************************************************)
InitFrames == InitWith({PathInput}, {TRUE})

MessagesFrames ==
    MessagesOf({"E1", "M1"},
               TokensFrames({1}, OneMap)
               \cup MembersFrames({1}, {"M1", "E2"}, OneMap)
               \cup RedeemFrames({1}, Cited)
               \cup CredentialFrames({1})
               \cup OtherFrames({1}))

NextFrames ==
    \/ \E m \in MessagesFrames : HandleMessage(m) /\ minted' <= MaxCodes
    \/ \E f \in Files : WriteFile(f)

SpecFrames == InitFrames /\ [][NextFrames]_vars

(***************************************************************************)
(* What the properties say of a step.                                      *)
(***************************************************************************)
\* The step handles the message received': the clock and the file are the
\* environment's to change, a construction changes `constructed`, an
\* arrival lengthens the mailbox, and every other step does one of these.
Handles ==
    /\ now' = now
    /\ file' = file
    /\ constructed' = constructed
    /\ Len(mailbox') <= Len(mailbox)

\* m came over a secure channel and is a POST to the path.
PostTo(m, path) ==
    m.chan # None /\ m.hdr.ok /\ m.hdr.method = "Post" /\ m.hdr.path = path

IsTokens(m) == PostTo(m, <<"tokens">>)
IsMembers(m) == PostTo(m, <<"members">>)
\* POST /credential carrying a one-time code.
IsRedeem(m) ==
    PostTo(m, <<"credential">>) /\ m.hdr.has_body /\ m.body.t = "OneTimeCode"
\* POST /credential without body.
IsCredential(m) == PostTo(m, <<"credential">>) /\ ~m.hdr.has_body

IsOk(o) == o.t = "sent" /\ o.status = "Ok"
IsForbidden(o, message) ==
    o.t = "sent" /\ o.status = "Forbidden" /\ o.body.message = message

\* The entry of id in store s, as a set: empty when there is none.
EntryOf(s, id) == IF id \in DOMAIN s THEN {s[id]} ELSE {}

(***************************************************************************)
(* C1  Token single-use.  Once a POST /credential has looked a code up,    *)
(* every later POST /credential carrying that code is answered             *)
(* Forbidden("unknown token"); so at most one of them is answered OK.      *)
(***************************************************************************)
C1_TokenSingleUse ==
    [][ (Handles /\ IsRedeem(received') /\ received'.body.code \in cited)
        => outcome' = forbidden(received'.hdr, "unknown token") ]_vars

\* A minted code, already redeemed with OK by M1, is cited again and refused.
C1_Witness ==
    /\ IsRedeem(received) /\ received.body.code >= 1
    /\ IsForbidden(outcome, "unknown token")
    /\ "M1" \in DOMAIN store /\ store["M1"].attested_by = "E1"
    /\ tokens = <<>>

(***************************************************************************)
(* C2  Token expiry.  A cached code redeemed more than 600 seconds after   *)
(* its mint is answered Forbidden("expired token"), and the redeeming      *)
(* peer's entry, present or absent, is as it was.                          *)
(***************************************************************************)
C2_TokenExpiry ==
    [][ (/\ Handles /\ IsRedeem(received')
         /\ LruContains(tokens, received'.body.code)
         /\ now - LruPeek(tokens, received'.body.code).time > 600)
        => /\ outcome' = forbidden(received'.hdr, "expired token")
           /\ EntryOf(store', received'.chan) = EntryOf(store, received'.chan)
      ]_vars

\* An expired code was refused, with the redeeming peer holding no entry
\* (S3) or holding the entry it had.
C2_Witness ==
    /\ IsRedeem(received) /\ IsForbidden(outcome, "expired token")
    /\ now = 601
    /\ received.chan \notin DOMAIN store

C5_AttestationViaToken ==
    [][ /\ (Handles /\ IsTokens(received') /\ IsOk(outcome'))
           => /\ LruContains(tokens', outcome'.body.code)
              /\ LET tkn == LruPeek(tokens', outcome'.body.code) IN
                 /\ tkn.attrs = received'.body.attrs
                 /\ tkn.generated_by = received'.chan
        /\ \A i \in 1..Len(tokens') :
              \/ \E j \in 1..Len(tokens) : tokens[j] = tokens'[i]
              \/ ~LruContains(tokens, tokens'[i].code)
        /\ (Handles /\ IsRedeem(received') /\ IsOk(outcome'))
           => /\ LruContains(tokens, received'.body.code)
              /\ received'.chan \in DOMAIN store'
              /\ LET tkn == LruPeek(tokens, received'.body.code)
                     entry == store'[received'.chan]
                 IN  /\ DOMAIN entry.attrs = DOMAIN tkn.attrs
                     /\ \A k \in DOMAIN tkn.attrs :
                            entry.attrs[k] = as_bytes(tkn.attrs[k])
                     /\ entry.expires = None
                     /\ entry.attested_by = tkn.generated_by
      ]_vars

\* M1 redeemed a token of E1 that carried {"project_id": "é", "team": "A"}.
C5_Witness ==
    /\ IsRedeem(received) /\ received.chan = "M1" /\ IsOk(outcome)
    /\ "M1" \in DOMAIN store
    /\ store["M1"].attested_by = "E1"
    /\ store["M1"].attrs = ("project_id" :> <<195, 169>>) @@ ("team" :> <<65>>)

(***************************************************************************)
(* C6  Attestation via /members.  When a POST /members with                *)
(* AddMember{member, attrs} is answered OK, the answer has no body and     *)
(* the store then holds under member an entry with those attributes (as    *)
(* bytes), expires = None and attested_by = the calling peer.              *)
(***************************************************************************)
C6_AttestationViaMembers ==
    [][ (Handles /\ IsMembers(received') /\ IsOk(outcome'))
        => /\ outcome' = Response("Ok", received'.hdr.id, EmptyBody)
           /\ received'.body.t = "AddMember"
           /\ received'.body.member \in DOMAIN store'
           /\ LET add == received'.body
                  entry == store'[add.member]
              IN  /\ DOMAIN entry.attrs = DOMAIN add.attrs
                  /\ \A k \in DOMAIN add.attrs :
                         entry.attrs[k] = as_bytes(add.attrs[k])
                  /\ entry.expires = None
                  /\ entry.attested_by = received'.chan
      ]_vars

\* E1 added M1 with {"role": "m"}.
C6_Witness ==
    /\ IsMembers(received) /\ received.chan = "E1" /\ IsOk(outcome)
    /\ received.body.member = "M1"
    /\ store["M1"].attrs = ("role" :> <<109>>)
    /\ store["M1"].attested_by = "E1"

(***************************************************************************)
(* C8  Credential content.  Every credential the server issues, from a     *)
(* redeemed token or from a stored entry, names the peer as subject, has   *)
(* schema 1, carries project_id = the configured project, and otherwise    *)
(* exactly the attributes of the token or of the entry; a project_id       *)
(* among those attributes is replaced by the configured one.               *)
(***************************************************************************)
\* The attributes the credential is built from, in the state before.
Supplied(m) ==
    IF m.hdr.has_body
    THEN LET tkn == LruPeek(tokens, m.body.code)
         IN  [k \in DOMAIN tkn.attrs |-> as_bytes(tkn.attrs[k])]
    ELSE store[m.chan].attrs

BackendFailed(m, o) ==
    o = internal_error(m.hdr, "store") \/ o = Failed("sign")

C9_MemberCredential ==
    [][ (Handles /\ IsCredential(received'))
        => /\ <<store, tokens, enrollers>>' = <<store, tokens, enrollers>>
           /\ IsOk(outcome') => received'.chan \in DOMAIN store
           /\ \/ BackendFailed(received', outcome')
              \/ /\ received'.chan \in DOMAIN store
                 /\ IsOk(outcome')
                 /\ outcome'.re = received'.hdr.id
                 /\ outcome'.body.t = "credential"
                 /\ outcome'.body.subject = received'.chan
                 /\ \A k \in DOMAIN store[received'.chan].attrs \ {"project_id"} :
                        outcome'.body.attrs[k] = store[received'.chan].attrs[k]
              \/ /\ received'.chan \notin DOMAIN store
                 /\ outcome' = forbidden(received'.hdr, "unauthorized member")
      ]_vars

\* S6: a peer without entry asked for a credential and was refused, while
\* another peer held an entry.
C9_Witness ==
    /\ IsCredential(received)
    /\ IsForbidden(outcome, "unauthorized member")
    /\ received.chan \notin DOMAIN store
    /\ store # EmptyMap

(***************************************************************************)
(* C4  Enroller gating.  The directory a request is checked against is     *)
(* the file's document when the server reloads (reload enabled, a path     *)
(* set) and the file reads and parses, and the map in memory otherwise.    *)
(***************************************************************************)
IsGated(m) == IsTokens(m) \/ IsMembers(m)

ReloadFails == Reloads /\ file.t # "doc"

Directory == IF Reloads /\ file.t = "doc" THEN file.doc ELSE enrollers

\* As claimed: a POST to /tokens or /members from a peer that is not in
\* the directory is answered Forbidden("unauthorized enroller") and
\* changes nothing: not the token cache, not the store, not the enroller
\* map, with reload enabled or disabled.
C4_NothingChanges ==
    [][ (Handles /\ IsGated(received') /\ received'.chan \notin Directory)
        => /\ outcome' = forbidden(received'.hdr, "unauthorized enroller")
           /\ <<tokens, store, enrollers>>' = <<tokens, store, enrollers>>
      ]_vars

\* Amended: such a request inserts no token and writes no entry.  If the
\* reload fails it is answered InternalServerError; otherwise it is
\* answered Forbidden("unauthorized enroller").  The enroller map is
\* unchanged when the server does not reload or the reload fails, and is
\* the file's document when the reload succeeds.
C4_EnrollerGating ==
    [][ (Handles /\ IsGated(received') /\ received'.chan \notin Directory)
        => /\ <<tokens, store, minted>>' = <<tokens, store, minted>>
           /\ ReloadFails
                => /\ outcome'.t = "sent"
                   /\ outcome'.status = "InternalServerError"
                   /\ outcome'.re = received'.hdr.id
           /\ ~ReloadFails
                => outcome' = forbidden(received'.hdr, "unauthorized enroller")
           /\ (~Reloads \/ ReloadFails) => enrollers' = enrollers
           /\ (Reloads /\ ~ReloadFails) => enrollers' = file.doc
      ]_vars

\* E2, who minted the cached token, was refused a POST /members by a
\* reloading server.
C4_Witness ==
    /\ IsMembers(received) /\ received.chan = "E2"
    /\ received.body.t = "AddMember"
    /\ IsForbidden(outcome, "unauthorized enroller")
    /\ reload_enrollers /\ filename # None
    /\ tokens # <<>> /\ Head(tokens).generated_by = "E2"
    /\ store = EmptyMap

(***************************************************************************)
(* C7  Cache bound.  The token cache never holds more than 128 tokens.     *)
(***************************************************************************)
C7_CacheBound == Len(tokens) <= 128

\* The cache is full after more mints than it can hold.
C7_Witness == Len(tokens) = 128 /\ minted > 128 /\ cited = {}

(***************************************************************************)
(* C10  Hot reload and authorization order.  When the server reloads and   *)
(* the file holds an enroller document, a POST to /tokens or /members      *)
(* replaces the map in memory by the file's document and decides by it:    *)
(* a peer the document lists passes the check, whatever the map held       *)
(* before, and a peer it does not list is refused.  (A file that does not  *)
(* read or parse is C11's case.)                                           *)
(***************************************************************************)
\* The request passed check_enroller: it was served, or failed at a later
\* step (its body, the store).
Passed(o) == IsOk(o) \/ o = Failed("decode") \/ o = Failed("store")

C10_HotReload ==
    [][ (Handles /\ IsGated(received') /\ Reloads /\ file.t = "doc")
        => /\ enrollers' = file.doc
           /\ received'.chan \in file.doc => Passed(outcome')
           /\ received'.chan \notin file.doc
                => outcome' = forbidden(received'.hdr, "unauthorized enroller")
      ]_vars

\* E2 minted the cached token while the file listed it; the file then lost
\* E2, and E2's next POST /tokens was refused against the reloaded map.
C10_Witness ==
    /\ IsTokens(received) /\ received.chan = "E2"
    /\ IsForbidden(outcome, "unauthorized enroller")
    /\ Reloads /\ file = Document({"E1"}) /\ enrollers = {"E1"}
    /\ tokens # <<>> /\ Head(tokens).generated_by = "E2"

(***************************************************************************)
(* C16  Legacy migration.  When Server::new returns a server, every        *)
(* record the legacy storage held under `member` when it was called is in  *)
(* the attribute store under its identity, with the same attribute names,  *)
(* the values as their UTF-8 bytes, expires = None and attested_by =       *)
(* None, and the legacy storage holds no record under `member`.            *)
(***************************************************************************)
\* The step is a call of Server::new.
Constructs == constructed' # constructed

C16_LegacyMigration ==
    [][ (Constructs /\ constructed'.t = "Ok")
        => /\ legacy' = EmptyMap
           /\ \A k \in DOMAIN legacy :
                 /\ k \in DOMAIN store'
                 /\ DOMAIN store'[k].attrs = DOMAIN legacy[k].attrs
                 /\ \A a \in DOMAIN legacy[k].attrs :
                        store'[k].attrs[a] = as_bytes(legacy[k].attrs[a])
                 /\ store'[k].expires = None
                 /\ store'[k].attested_by = None
      ]_vars

\* A server was built at the first call over legacy records of M1 and E2,
\* "é" is stored as its two bytes, and E2 was issued a credential from its
\* migrated entry.
C16_Witness ==
    /\ constructed.t = "Ok" /\ constructed.n = 1 /\ legacy = EmptyMap
    /\ DOMAIN store = {"M1", "E2"}
    /\ store["M1"].attested_by = None /\ store["E2"].attested_by = None
    /\ store["E2"].attrs = ("project_id" :> <<195, 169>>) @@ ("team" :> <<65>>)
    /\ received.chan = "E2" /\ IsOk(outcome)

(***************************************************************************)
(* C17  Migration abort.  A call of Server::new in which a call of the     *)
(* legacy storage or of the attribute store fails, or that meets a record  *)
(* that does not decode or a key that is no identifier, returns an error   *)
(* and no server: the server's fields are not set and no message is ever   *)
(* handled unless a construction succeeded, and then the legacy storage    *)
(* holds no record.                                                        *)
(***************************************************************************)
\* A record of the legacy storage that the migration cannot convert.
Unconvertible(leg) ==
    \E k \in DOMAIN leg : leg[k].t # "map" \/ ~is_identifier(k)

C17_MigrationAbort ==
    [][ /\ (Constructs /\ (constructed'.fail # NoFailure
                            \/ Unconvertible(legacy)))
           => /\ constructed'.t = "Err"
              /\ <<filename, enrollers, reload_enrollers, tokens>>'
                     = <<filename, enrollers, reload_enrollers, tokens>>
        /\ (received' # received \/ outcome' # outcome)
           => constructed.t = "Ok" /\ legacy = EmptyMap
      ]_vars

\* The deletion of a migrated record failed: M1's record is migrated and
\* still in the legacy storage, next to a record not yet looked at, and
\* there is no server.
C17_Witness ==
    /\ constructed.t = "Err" /\ constructed.error = "del"
    /\ constructed.fail = <<"del", "M1">>
    /\ DOMAIN legacy = {"M1", "E2"}
    /\ DOMAIN store = {"M1"} /\ store["M1"].attested_by = None
    /\ received = NoMessage /\ enrollers = {}

(***************************************************************************)
(* C18  Enroller source dual interpretation.  An input that parses as an   *)
(* enroller document gives that map and no path, whether or not a file of  *)
(* that name exists, and no error of reading or parsing a file.  An input  *)
(* that does not parse is taken as a path: an unreadable file gives the    *)
(* error Io, a file that does not parse the error Invalid, and a file      *)
(* that holds a document gives its map, with the path recorded.            *)
(***************************************************************************)
C18_DualInterpretation ==
    [][ Constructs
        => LET input == constructed'.input
               built == constructed'.t = "Ok"
           IN  /\ input.t = "json"
                    => /\ constructed'.error \notin {"Io", "Invalid"}
                       /\ built => filename' = None /\ enrollers' = input.doc
               /\ (input.t = "path" /\ file.t = "unreadable")
                    => ~built /\ constructed'.error = "Io"
               /\ (input.t = "path" /\ file.t = "invalid")
                    => ~built /\ constructed'.error = "Invalid"
               /\ (input.t = "path" /\ file.t = "doc")
                    => /\ constructed'.error \notin {"Io", "Invalid"}
                       /\ built => /\ filename' = EnrollersFile
                                   /\ enrollers' = file.doc
      ]_vars

\* The input parsed as the document {"E1"} while a file of its name held
\* the document {"E1", "E2"}: the server has the input's map and no path.
C18_Witness ==
    /\ constructed.t = "Ok" /\ constructed.input = InlineInput({"E1"})
    /\ file = Document({"E1", "E2"})
    /\ filename = None /\ enrollers = {"E1"}

(***************************************************************************)
(* C11  Reload failure.  When the server reloads and the file does not     *)
(* read or does not parse, a POST to /tokens or /members is answered       *)
(* InternalServerError with the error's text, no token is minted, no       *)
(* entry is written, and the enroller map stays as it was.                 *)
(***************************************************************************)
C11_ReloadFailure ==
    [][ (/\ Handles /\ IsGated(received')
         /\ reload_enrollers /\ filename # None /\ file.t # "doc")
        => /\ outcome' = internal_error(received'.hdr,
                             IF file.t = "unreadable" THEN "Io" ELSE "Invalid")
           /\ <<tokens, minted, store, enrollers>>'
                  = <<tokens, minted, store, enrollers>>
      ]_vars

\* E1, listed in the map, posted to /tokens while the file did not parse:
\* InternalServerError, and the map still lists E1 and E2.
C11_Witness ==
    /\ IsTokens(received) /\ received.chan = "E1"
    /\ received.body.t = "CreateToken"
    /\ outcome = internal_error(received.hdr, "Invalid")
    /\ file = Invalid /\ enrollers = {"E1", "E2"}
    /\ tokens = <<>> /\ minted = 0

(***************************************************************************)
(* C19  Reload only when configured.  A server whose reload flag is false, *)
(* or whose enrollers were given as a document (it has no path), never     *)
(* changes its enroller map, whatever the file becomes, and decides every  *)
(* POST to /tokens or /members by that map.  The map changes only in a     *)
(* POST to /tokens or /members of a server with the flag and a path, and   *)
(* then to the file's document.                                            *)
(***************************************************************************)
C19_ReloadOnlyWhenConfigured ==
    [][ /\ constructed.input.t = "json" => filename = None
        /\ (~reload_enrollers \/ filename = None)
           => /\ enrollers' = enrollers
              /\ (Handles /\ IsGated(received'))
                 => /\ received'.chan \in enrollers => Passed(outcome')
                    /\ received'.chan \notin enrollers
                         => outcome' = forbidden(received'.hdr,
                                                 "unauthorized enroller")
        /\ enrollers' # enrollers
           => /\ Handles /\ IsGated(received')
              /\ reload_enrollers /\ filename # None
              /\ enrollers' = file.doc
      ]_vars

\* A server built from a path without the reload flag: the file has lost
\* E2 since, and E2 still mints a token.
C19_Witness ==
    /\ ~reload_enrollers /\ filename # None
    /\ file = Document({"E1"}) /\ enrollers = {"E1", "E2"}
    /\ IsTokens(received) /\ received.chan = "E2" /\ IsOk(outcome)

(***************************************************************************)
(* C15  Attester invariant.  As claimed: every entry the server writes     *)
(* with attested_by = X is written at a moment when X is in the enroller   *)
(* map, by /members and by token redemption alike.                         *)
(***************************************************************************)
\* The identities whose entry the step writes or changes.
Written == { id \in DOMAIN store' : EntryOf(store, id) # {store'[id]} }

C15_AttesterInDirectory ==
    [][ Handles => \A id \in Written :
                      store'[id].attested_by \in enrollers' ]_vars

(***************************************************************************)
(* C15, amended.  An entry written by /members names the calling peer,     *)
(* who is in the enroller map at that moment.  An entry written by a       *)
(* token redemption names the peer that minted the token; that peer was    *)
(* in the enroller map when it minted the token (and the cached token      *)
(* does not change), but need not be in it at the redemption.              *)
(***************************************************************************)
C15_AttesterAtMint ==
    [][ Handles
        => /\ \A id \in Written :
                 \/ /\ IsMembers(received') /\ id = received'.body.member
                    /\ store'[id].attested_by = received'.chan
                    /\ received'.chan \in enrollers'
                 \/ /\ IsRedeem(received') /\ id = received'.chan
                    /\ LruContains(tokens, received'.body.code)
                    /\ store'[id].attested_by
                          = LruPeek(tokens, received'.body.code).generated_by
           /\ \A i \in 1..Len(tokens') :
                 \/ \E j \in 1..Len(tokens) : tokens[j] = tokens'[i]
                 \/ /\ IsTokens(received')
                    /\ tokens'[i].generated_by = received'.chan
                    /\ received'.chan \in enrollers'
      ]_vars

\* M1 redeemed a token that E2 had minted; by then the reloaded map had
\* lost E2, and M1's entry names E2.
C15_Witness ==
    /\ IsRedeem(received) /\ received.chan = "M1" /\ IsOk(outcome)
    /\ "M1" \in DOMAIN store /\ store["M1"].attested_by = "E2"
    /\ reload_enrollers /\ filename # None /\ enrollers = {"E1"}

(***************************************************************************)
(* C12  BadRequest on decode failure.  As claimed: a request over a        *)
(* secure channel whose header does not decode, or whose body does not     *)
(* decode as what its endpoint takes (a CreateToken or an AddMember from   *)
(* an enroller, a one-time code for POST /credential with a body), is      *)
(* answered with status BadRequest.                                        *)
(***************************************************************************)
\* The frame of m does not decode where the handler decodes it.
Malformed(m) ==
    /\ m.chan # None
    /\ \/ ~m.hdr.ok
       \/ IsTokens(m) /\ m.chan \in Directory /\ ~ReloadFails
                      /\ m.body.t # "CreateToken"
       \/ IsMembers(m) /\ m.chan \in Directory /\ ~ReloadFails
                       /\ m.body.t # "AddMember"
       \/ PostTo(m, <<"credential">>) /\ m.hdr.has_body
                                      /\ m.body.t # "OneTimeCode"

C12_BadRequestOnDecodeFailure ==
    [][ (Handles /\ Malformed(received'))
        => outcome'.t = "sent" /\ outcome'.status = "BadRequest" ]_vars

(***************************************************************************)
(* C13  InternalError on backend failure.  As claimed: when a read or a    *)
(* write of the attribute store or the signing of a credential fails in    *)
(* a POST to /members or to /credential, the client is answered with       *)
(* status InternalServerError.                                             *)
(***************************************************************************)
\* The run of the handler met a failing call of the store or of the signer.
BackendFailure(m, o) ==
    \/ o.t = "err" /\ o.status \in {"store", "sign"}
    \/ o = internal_error(m.hdr, "store")

C13_InternalErrorOnBackendFailure ==
    [][ (/\ Handles
         /\ IsMembers(received') \/ PostTo(received', <<"credential">>)
         /\ BackendFailure(received', outcome'))
        => outcome'.t = "sent" /\ outcome'.status = "InternalServerError"
      ]_vars

(***************************************************************************)
(* C14  Routing statuses.  As claimed: a request whose path is none of     *)
(* /tokens, /members, /credential is answered NotFound whatever its        *)
(* method, and a request to one of these paths whose method is not POST    *)
(* is answered MethodNotAllowed.                                           *)
(***************************************************************************)
Endpoints == {<<"tokens">>, <<"members">>, <<"credential">>}

C14_RoutingStatuses ==
    [][ (Handles /\ received'.chan # None /\ received'.hdr.ok)
        => /\ received'.hdr.path \notin Endpoints
                => outcome' = unknown_path(received'.hdr)
           /\ (received'.hdr.path \in Endpoints
               /\ received'.hdr.method # "Post")
                => outcome' = invalid_method(received'.hdr)
      ]_vars

(***************************************************************************)
(* C20  First credential is built from the token.  The credential that     *)
(* answers a successful redemption carries the token's attributes (as      *)
(* bytes, with project_id set to the configured project), whatever entry   *)
(* the store holds for the peer once the server has written its own:       *)
(* another writer that overwrites the entry between the server's write     *)
(* and the signing does not change the credential.                         *)
(***************************************************************************)
C20_FirstCredentialFromToken ==
    [][ (Handles /\ IsRedeem(received') /\ IsOk(outcome'))
        => /\ LruContains(tokens, received'.body.code)
           /\ LET tkn == LruPeek(tokens, received'.body.code)
                  crd == outcome'.body
              IN  /\ crd.t = "credential"
                  /\ DOMAIN crd.attrs = DOMAIN tkn.attrs \cup {"project_id"}
                  /\ \A k \in DOMAIN tkn.attrs \ {"project_id"} :
                         crd.attrs[k] = as_bytes(tkn.attrs[k])
      ]_vars

\* M1 redeemed a token carrying {"role": "m"} while another writer put
\* {"role": "x"} under M1: the store holds the other writer's entry, the
\* credential the token's role.
C20_Witness ==
    /\ IsRedeem(received) /\ received.chan = "M1" /\ IsOk(outcome)
    /\ "M1" \in DOMAIN store
    /\ store["M1"].attrs = ("role" :> <<120>>)
    /\ store["M1"].attested_by = None
    /\ outcome.body.attrs = ("role" :> <<109>>) @@ ("project_id" :> <<112, 49>>)

(***************************************************************************)
(* C21  Response ordering.  The worker handles one message to its end      *)
(* before it is handed the next: the messages are answered in the order    *)
(* in which they arrived, so the answers to the requests of one channel    *)
(* are in the order of these requests, and the token cache, the enrollers  *)
(* and the store change only in the step that answers a message, so that   *)
(* every handler starts from the state in which the one before it ended.   *)
(***************************************************************************)
C21_ResponseOrdering ==
    /\ [](\A i \in DOMAIN emitted : emitted[i].seq = i)
    /\ [](\A i, j \in DOMAIN emitted :
              (i < j /\ emitted[i].message.chan = emitted[j].message.chan)
                  => emitted[i].seq < emitted[j].seq)
    /\ [][ (Len(emitted') = Len(emitted))
              => UNCHANGED <<tokens, enrollers, store, minted, cited>> ]_vars
    /\ [][ (Len(emitted') # Len(emitted))
              => /\ Len(emitted') = Len(emitted) + 1
                 /\ emitted'[Len(emitted')].outcome = outcome'
                 /\ received' = Head(mailbox).message
                 /\ mailbox' = Tail(mailbox) ]_vars

\* Three messages were handled in the order of their arrival: a redemption
\* of the member that was refused, a mint of the enroller, and a request of
\* the member whose body did not decode.
C21_Witness ==
    /\ Len(emitted) = 3
    /\ mailbox = <<>>
    /\ emitted[1].message.chan = "M1"
    /\ IsForbidden(emitted[1].outcome, "unknown token")
    /\ emitted[2].message.chan = "E1"
    /\ IsOk(emitted[2].outcome)
    /\ emitted[3].message.chan = "M1"
    /\ emitted[3].outcome.t = "err"

(***************************************************************************)
(* C22  Request-id echo.  Every response the server sends, whatever its    *)
(* status and whether or not the request came over a secure channel,       *)
(* refers to the identifier of the request it answers.                     *)
(***************************************************************************)
C22_RequestIdEcho ==
    [][ (Handles /\ outcome'.t = "sent")
          => /\ received'.hdr.ok
             /\ outcome'.re = received'.hdr.id ]_vars

\* The store failed under the request with identifier 2, and the
\* InternalServerError response refers to 2.
C22_Witness ==
    /\ outcome.t = "sent"
    /\ outcome.status = "InternalServerError"
    /\ received.hdr.id = 2
    /\ outcome.re = 2

(***************************************************************************)
(* C23  Token visibility.  As claimed: a token minted at time T is found   *)
(* by any POST /credential citing its code that the same server handles    *)
(* after T, provided the code has not been redeemed before and no more     *)
(* than 600 seconds have passed since T.  (Up to time 600 no token is      *)
(* older than that.)                                                       *)
(***************************************************************************)
C23_VisibleUntilExpiry ==
    [][ (/\ Handles
         /\ IsRedeem(received')
         /\ received'.body.code \in 1..minted
         /\ received'.body.code \notin cited
         /\ now <= MAX_TOKEN_DURATION)
          => /\ LruContains(tokens, received'.body.code)
             /\ ~IsForbidden(outcome', "unknown token") ]_vars

(***************************************************************************)
(* C23, amended.  The token is found provided also that fewer than 128     *)
(* codes have been minted after it: the cache evicts the token of the      *)
(* earliest mint when the 129th is put.  A token that is found and no      *)
(* older than 600 seconds is not refused.                                  *)
(***************************************************************************)
C23_VisibleUntilEvicted ==
    [][ (/\ Handles
         /\ IsRedeem(received')
         /\ received'.body.code \in 1..minted
         /\ received'.body.code \notin cited
         /\ minted - received'.body.code < TokenCacheCapacity)
          => /\ LruContains(tokens, received'.body.code)
             /\ ~IsForbidden(outcome', "unknown token")
             /\ (now - LruPeek(tokens, received'.body.code).time
                     <= MAX_TOKEN_DURATION)
                    => outcome'.status # "Forbidden" ]_vars

\* The first code is redeemed when 127 codes have been minted after it.
C23_Witness ==
    /\ IsRedeem(received)
    /\ received.body.code = 1
    /\ IsOk(outcome)
    /\ minted = TokenCacheCapacity
    /\ Len(tokens) = TokenCacheCapacity - 1

(***************************************************************************)
(* C24  LRU overflow.  A mint into a cache of 128 tokens evicts exactly    *)
(* one of them, the least recently used, which is the one minted earliest  *)
(* of those cached; the new token is stored and the response is the one    *)
(* of any mint: nothing tells of the eviction.  A later redemption of a    *)
(* code that was minted, never looked up and is no longer cached is        *)
(* answered Forbidden("unknown token"), whatever its age.                  *)
(***************************************************************************)
C24_LruOverflow ==
    /\ [][ (/\ Handles
             /\ IsTokens(received')
             /\ IsOk(outcome')
             /\ Len(tokens) = TokenCacheCapacity)
              => /\ Len(tokens') = TokenCacheCapacity
                 /\ tokens' = Append(Tail(tokens), tokens'[Len(tokens')])
                 /\ tokens'[Len(tokens')] =
                        Token(minted', received'.body.attrs,
                              received'.chan, now)
                 /\ ~LruContains(tokens', Head(tokens).code)
                 /\ \A i \in 2..Len(tokens) :
                        /\ Head(tokens).code < tokens[i].code
                        /\ Head(tokens).time <= tokens[i].time
                 /\ outcome' = Response("Ok", received'.hdr.id,
                                        CodeBody(minted')) ]_vars
    /\ [][ (/\ Handles
             /\ IsRedeem(received')
             /\ received'.body.code \in 1..minted
             /\ received'.body.code \notin cited
             /\ ~LruContains(tokens, received'.body.code))
              => IsForbidden(outcome', "unknown token") ]_vars

\* The 129th mint, with no code looked up so far: the cache holds 128
\* tokens and the first code is not among them.
C24_Witness ==
    /\ IsTokens(received)
    /\ IsOk(outcome)
    /\ minted = TokenCacheCapacity + 1
    /\ cited = {}
    /\ Len(tokens) = TokenCacheCapacity
    /\ ~LruContains(tokens, 1)
    /\ now <= MAX_TOKEN_DURATION

(***************************************************************************)
(* C25  Code consumed whatever the outcome.  A POST /credential that       *)
(* cites a cached code takes the code out of the cache, whether it is      *)
(* answered OK or Forbidden("expired token"), fails in the store or in     *)
(* the signing, or has an answer that cannot be sent; a later POST         *)
(* /credential with the code is answered Forbidden("unknown token"),       *)
(* if that answer can be sent.                                             *)
(***************************************************************************)
C25_CodeConsumed ==
    /\ [][ (/\ Handles
             /\ IsRedeem(received')
             /\ LruContains(tokens, received'.body.code))
              => /\ ~LruContains(tokens', received'.body.code)
                 /\ received'.body.code \in cited'
                 /\ \/ IsOk(outcome')
                    \/ IsForbidden(outcome', "expired token")
                    \/ outcome' \in {Failed("store"), Failed("sign"),
                                     Failed("send")} ]_vars
    /\ [][ (/\ Handles
             /\ IsRedeem(received')
             /\ received'.body.code \in cited)
              => outcome' \in {forbidden(received'.hdr, "unknown token"),
                               Failed("send")} ]_vars

\* Code 1 is refused as unknown at time 0 though no redemption has written
\* an entry for M1: the store failed under the redemption that took it.
C25_Witness ==
    /\ IsRedeem(received)
    /\ received.body.code = 1
    /\ IsForbidden(outcome, "unknown token")
    /\ minted >= 1
    /\ "M1" \notin DOMAIN store
    /\ now = 0

(***************************************************************************)
(* C26  add_member is idempotent and last-writer-wins.  An authorized      *)
(* POST /members that reaches the store is answered OK whether or not the  *)
(* member has an entry, and leaves under the member the entry that the     *)
(* request and the clock determine: its attributes, no expiry, its sender  *)
(* as attester.  Nothing of an earlier entry is kept, so the same request  *)
(* again changes at most created_at, and a request with other attributes   *)
(* or of another enroller replaces the whole entry.                        *)
(***************************************************************************)
C26_AddMemberLastWriterWins ==
    /\ [][ (/\ Handles
             /\ IsMembers(received')
             /\ received'.body.t = "AddMember"
             /\ received'.chan \in enrollers)
              => outcome' \in {Response_ok(received'.hdr, EmptyBody),
                               Failed("store")} ]_vars
    /\ [][ (Handles /\ IsMembers(received') /\ IsOk(outcome'))
              => /\ DOMAIN store' = DOMAIN store \cup {received'.body.member}
                 /\ store'[received'.body.member] =
                        AttributesEntry(attrs_to_bytes(received'.body.attrs),
                                        now, None, received'.chan)
                 /\ \A id \in DOMAIN store \ {received'.body.member} :
                        store'[id] = store[id] ]_vars

\* E1 added M1 with one attribute map, E2 added M1 with the other, and E2
\* repeated its request later: the entry is the one of E2's request, with
\* the time of the repetition.
C26_Witness ==
    /\ Len(emitted) = 3
    /\ \A i \in 1..3 : IsOk(emitted[i].outcome)
    /\ emitted[1].message.chan = "E1"
    /\ emitted[2].message.chan = "E2"
    /\ emitted[1].message.body.attrs # emitted[2].message.body.attrs
    /\ emitted[3].message = emitted[2].message
    /\ "M1" \in DOMAIN store
    /\ store["M1"] =
           AttributesEntry(attrs_to_bytes(emitted[2].message.body.attrs),
                           MAX_TOKEN_DURATION, None, "E2")

(***************************************************************************)
(* C27  create_token is not idempotent.  Every POST /tokens answered OK    *)
(* mints a code that no cached token has and puts one token under it at    *)
(* the end of the cache; the tokens of earlier requests stay as they were, *)
(* but for the one evicted when the cache is full.  A redemption takes     *)
(* only the token of the code it cites, so the codes of two identical      *)
(* requests are redeemed independently.                                    *)
(***************************************************************************)
C27_CreateTokenNotIdempotent ==
    /\ [][ (Handles /\ IsTokens(received') /\ IsOk(outcome'))
              => /\ outcome'.body.t = "code"
                 /\ ~LruContains(tokens, outcome'.body.code)
                 /\ tokens' =
                        Append(IF Len(tokens) >= TokenCacheCapacity
                               THEN Tail(tokens) ELSE tokens,
                               Token(outcome'.body.code,
                                     received'.body.attrs, received'.chan,
                                     now))
                 /\ store' = store ]_vars
    /\ [][ (Handles /\ IsRedeem(received'))
              => tokens' = SelectSeq(tokens,
                     LAMBDA tkn : tkn.code # received'.body.code) ]_vars

\* Two requests of E1 with the same attributes were given codes 1 and 2;
\* M1 has redeemed code 1, and the token of code 2 is still cached.
C27_Witness ==
    /\ IsRedeem(received)
    /\ received.body.code = 1
    /\ IsOk(outcome)
    /\ minted = 2
    /\ Len(tokens) = 1
    /\ tokens[1].code = 2
    /\ "M1" \in DOMAIN store
    /\ store["M1"].attrs = attrs_to_bytes(tokens[1].attrs)
    /\ store["M1"].attested_by = tokens[1].generated_by

(***************************************************************************)
(* C28  Restart.  A server that Server::new returns has an empty token     *)
(* cache, so a code that was minted before the server was built is         *)
(* answered Forbidden("unknown token"); the entries of the attribute       *)
(* store are as they were before (but for those of migrated legacy         *)
(* records), and a member that has one is given its credential on POST     *)
(* /credential without body.                                               *)
(***************************************************************************)
C28_Restart ==
    /\ [][ (constructed'.n = constructed.n + 1 /\ constructed'.t = "Ok")
              => /\ tokens' = <<>>
                 /\ \A id \in DOMAIN store \ DOMAIN legacy :
                        id \in DOMAIN store' /\ store'[id] = store[id] ]_vars
    /\ [][ (/\ Handles
             /\ IsRedeem(received')
             /\ received'.body.code \in 1..constructed.drawn)
              => outcome' \in {forbidden(received'.hdr, "unknown token"),
                               Failed("send")} ]_vars
    /\ [][ (/\ Handles
             /\ IsCredential(received')
             /\ received'.chan \in DOMAIN store)
              => \/ outcome' =
                       Response_ok(received'.hdr, CredentialBody(
                           credential_from_entry(received'.chan,
                                                 store[received'.chan])))
                 \/ outcome' \in {internal_error(received'.hdr, "store"),
                                  Failed("sign"), Failed("send")} ]_vars

\* After a restart M1 cites code 1, minted before it and never redeemed
\* (M1 has no entry): the code is unknown.
C28_Witness ==
    /\ constructed.n = 2
    /\ constructed.t = "Ok"
    /\ constructed.drawn = 1
    /\ IsRedeem(received)
    /\ received.body.code = 1
    /\ IsForbidden(outcome, "unknown token")
    /\ "M1" \notin DOMAIN store

(***************************************************************************)
(* C29  Revoked minter.  A cached token whose minter is no longer in the   *)
(* enroller map is redeemed like any other: the redemption neither         *)
(* reloads nor looks at the enroller map, it is answered OK unless the     *)
(* token has expired or the store or the signer fails, and the entry it    *)
(* writes names the minter as attester.                                    *)
(***************************************************************************)
C29_RevokedMinter ==
    [][ (/\ Handles
         /\ IsRedeem(received')
         /\ LruContains(tokens, received'.body.code)
         /\ LruPeek(tokens, received'.body.code).generated_by
                \notin enrollers)
          => LET tkn == LruPeek(tokens, received'.body.code) IN
             /\ enrollers' = enrollers
             /\ \/ IsOk(outcome')
                \/ expired(tkn) /\ IsForbidden(outcome', "expired token")
                \/ outcome' \in {Failed("store"), Failed("sign"),
                                 Failed("send")}
             /\ IsOk(outcome')
                    => /\ received'.chan \in DOMAIN store'
                       /\ store'[received'.chan].attested_by
                              = tkn.generated_by
                       /\ outcome'.body.t = "credential" ]_vars

\* E2 minted a code and was then dropped from the enroller file; a reload
\* took it out of the map, and M1 redeemed the code for a credential.
C29_Witness ==
    /\ IsRedeem(received)
    /\ IsOk(outcome)
    /\ outcome.body.t = "credential"
    /\ outcome.body.subject = "M1"
    /\ "M1" \in DOMAIN store
    /\ store["M1"].attested_by = "E2"
    /\ "E2" \notin enrollers
    /\ file = Document({"E1"})

(***************************************************************************)
(* C30  Client result mapping.  An operation sends one request and maps    *)
(* the one response that comes back.  Of a response that decodes (an OK    *)
(* response with the body the operation decodes, any other response with   *)
(* an Error body or none) it returns Ok, with that body, if and only if    *)
(* the status is OK; otherwise it returns an error with the message of     *)
(* the Error body, or with the operation's label if the body has no        *)
(* message or there is no body.  Bytes that do not decode give the         *)
(* decoder's error, and no response gives the error of send_and_receive.   *)
(***************************************************************************)
WellFormed(op, reply) ==
    /\ reply.t = "sent"
    /\ IF reply.status = "Ok"
       THEN op = "add_member" \/ reply.body.t = decoded(op)
       ELSE reply.body.t \in {"empty", "error"}

C30_ClientResultMapping ==
    client.op \in ClientOps
      => /\ WellFormed(client.op, client.reply)
            => /\ client.returned.t = "Ok" <=> client.reply.status = "Ok"
               /\ client.returned.t = "Ok"
                     => client.returned.value =
                           IF client.op = "add_member" THEN EmptyBody
                           ELSE client.reply.body
               /\ client.returned.t # "Ok"
                     => /\ client.returned.t = "Protocol"
                        /\ client.returned.message =
                              IF /\ client.reply.body.t = "error"
                                 /\ client.reply.body.message # ""
                              THEN client.reply.body.message
                              ELSE label(client.op)
         /\ ~WellFormed(client.op, client.reply)
            => client.returned.t =
                  IF client.reply.t \in {"sent", "bytes"} THEN "Decode"
                  ELSE "Transport"

\* credential_with was called with a code that the server does not hold:
\* the operation returned the server's "unknown token".
C30_Witness ==
    /\ client.op = "credential_with"
    /\ client.reply = outcome
    /\ IsRedeem(received)
    /\ IsForbidden(outcome, "unknown token")
    /\ client.returned = Returned("Protocol", EmptyBody, "unknown token")

(***************************************************************************)
(* Claims on the expiry boundary, the entry written by a redemption, the   *)
(* order of authorization and decoding, the frame of each endpoint, the    *)
(* minters of the cache, recovery, the two credentials, migration and the  *)
(* isolation of member credentials.                                        *)
(***************************************************************************)

\* The message and outcome of emitted[i] are a POST to path answered OK.
OkAt(i, path, has_body) ==
    /\ PostTo(emitted[i].message, path)
    /\ emitted[i].message.hdr.has_body = has_body
    /\ IsOk(emitted[i].outcome)

(***************************************************************************)
(* C31  Expiry boundary.  A redemption of a cached code is refused as      *)
(* expired exactly when more than 600 seconds have passed since the mint.  *)
(* Up to and at 600 seconds the token is accepted: the answer is OK, or    *)
(* the store, the signer or the transport failed, and unless the store     *)
(* failed the peer's entry is the token's.  Later the answer is            *)
(* Forbidden("expired token"), sent or lost, and the store is as it was.   *)
(***************************************************************************)
C31_ExpiryBoundary ==
    [][ (/\ Handles /\ IsRedeem(received')
         /\ LruContains(tokens, received'.body.code))
        => LET elapsed == now - LruPeek(tokens, received'.body.code).time
               tkn == LruPeek(tokens, received'.body.code)
           IN
           /\ (elapsed <= 600)
                  => /\ \/ IsOk(outcome')
                        \/ outcome' \in {Failed("store"), Failed("sign"),
                                         Failed("send")}
                     /\ outcome' # Failed("store")
                           => EntryOf(store', received'.chan)
                                  = {redeemed_entry(tkn)}
           /\ (elapsed > 600)
                  => /\ outcome' \in {forbidden(received'.hdr,
                                                "expired token"),
                                      Failed("send")}
                     /\ store' = store
      ]_vars

\* A code minted at time 0 was redeemed with OK at time 600 exactly.
C31_Witness ==
    \E i, j \in DOMAIN emitted :
        /\ i < j
        /\ OkAt(i, <<"tokens">>, TRUE) /\ emitted[i].at = 0
        /\ IsRedeem(emitted[j].message) /\ IsOk(emitted[j].outcome)
        /\ emitted[i].outcome.body = CodeBody(emitted[j].message.body.code)
        /\ emitted[j].at = 600
(***************************************************************************)
(* C32  One entry per identity on redemption.  When a peer that has an     *)
(* entry redeems a token with OK, its entry afterwards is the token's      *)
(* attributes (as bytes), added now, without expiry, attested by the       *)
(* token's minter: nothing of the previous entry is kept, and the entries  *)
(* of the other identities are as they were.  The store being a map from   *)
(* identity to entry, it holds one entry per identity at most.             *)
(***************************************************************************)
C32_EntryReplaced ==
    [][ (/\ Handles /\ IsRedeem(received') /\ IsOk(outcome')
         /\ received'.chan \in DOMAIN store)
        => LET tkn == LruPeek(tokens, received'.body.code) IN
           /\ DOMAIN store' = DOMAIN store
           /\ store'[received'.chan] =
                  AttributesEntry(attrs_to_bytes(tkn.attrs), now, None,
                                  tkn.generated_by)
           /\ \A id \in DOMAIN store \ {received'.chan} :
                  store'[id] = store[id]
      ]_vars

\* M1 was added with {"role"}, then redeemed with OK a code minted with
\* {"project_id", "team"}: its entry has these two names and no "role".
C32_Witness ==
    \E i, j, k \in DOMAIN emitted :
        /\ i < k /\ j < k
        /\ OkAt(i, <<"members">>, TRUE)
        /\ emitted[i].message.body.member = "M1"
        /\ DOMAIN emitted[i].message.body.attrs = {"role"}
        /\ OkAt(j, <<"tokens">>, TRUE)
        /\ DOMAIN emitted[j].message.body.attrs = {"project_id", "team"}
        /\ IsRedeem(emitted[k].message) /\ IsOk(emitted[k].outcome)
        /\ emitted[k].message.chan = "M1"
        /\ emitted[j].outcome.body = CodeBody(emitted[k].message.body.code)
        /\ "M1" \in DOMAIN store
        /\ DOMAIN store["M1"].attrs = {"project_id", "team"}
        /\ store["M1"].attested_by = "E1"
(***************************************************************************)
(* C33  Authorization precedes body decoding.  On POST /tokens and POST    *)
(* /members the body plays no part until the enroller check, reload        *)
(* included, has let the peer through.  A peer the directory does not      *)
(* list is answered Forbidden("unauthorized enroller") whatever its body;  *)
(* a reload that fails is answered InternalServerError whatever the body;  *)
(* and the decoder's error is the outcome only for a peer the directory    *)
(* lists, after the map in memory has been reloaded.                       *)
(***************************************************************************)
C33_AuthorizationFirst ==
    [][ (Handles /\ IsGated(received'))
        => /\ (~ReloadFails /\ received'.chan \notin Directory)
                 => outcome' = forbidden(received'.hdr,
                                         "unauthorized enroller")
           /\ ReloadFails
                 => /\ outcome'.t = "sent"
                    /\ outcome'.status = "InternalServerError"
           /\ outcome' = Failed("decode")
                 => /\ ~ReloadFails /\ received'.chan \in Directory
                    /\ enrollers' = Directory
                    /\ received'.body.t = "garbage"
           /\ (/\ ~ReloadFails /\ received'.chan \in Directory
               /\ received'.body.t = "garbage")
                 => outcome' = Failed("decode")
      ]_vars

\* M1, which the reloaded directory does not list, posted bytes that are
\* no CreateToken to /tokens and was refused as no enroller.
C33_Witness ==
    /\ IsTokens(received) /\ received.chan = "M1"
    /\ received.body = Garbage
    /\ IsForbidden(outcome, "unauthorized enroller")
    /\ Reloads /\ file.t = "doc" /\ enrollers = file.doc
(***************************************************************************)
(* C34  Frame effects per endpoint.  POST /tokens leaves the attribute     *)
(* store as it was; POST /members leaves the token cache as it was; POST   *)
(* /credential, with or without body, leaves the enroller map as it was,   *)
(* even when the server reloads and the file differs from the map; POST    *)
(* /credential without body leaves the token cache and the store as they   *)
(* were; and a request answered NotFound or MethodNotAllowed leaves the    *)
(* cache, the store and the enroller map as they were.                     *)
(***************************************************************************)
C34_FrameEffects ==
    [][ Handles
        => /\ IsTokens(received') => store' = store
           /\ IsMembers(received')
                 => tokens' = tokens /\ minted' = minted /\ cited' = cited
           /\ PostTo(received', <<"credential">>) => enrollers' = enrollers
           /\ IsCredential(received')
                 => tokens' = tokens /\ store' = store /\ cited' = cited
           /\ (/\ outcome'.t = "sent"
               /\ outcome'.status \in {"NotFound", "MethodNotAllowed"})
                 => <<tokens, store, enrollers, minted, cited>>'
                        = <<tokens, store, enrollers, minted, cited>>
      ]_vars

\* A member was issued its credential by a reloading server whose file
\* had changed since the last reload, with a token in the cache: the map
\* in memory is not the file's.
C34_Witness ==
    /\ IsCredential(received) /\ IsOk(outcome)
    /\ Reloads /\ file.t = "doc" /\ file.doc # enrollers
    /\ tokens # <<>>
(***************************************************************************)
(* C35  Minter invariant of the cache.  A token enters the cache only in   *)
(* a POST /tokens answered OK whose sender the enroller map lists, the     *)
(* map being the file's document when the server reloads; the token names  *)
(* that sender as generated_by, and a cached token does not change.  So    *)
(* every cached token names a peer that passed the enroller check in the   *)
(* request that minted it, and no request of a peer the map does not list  *)
(* adds a token.                                                           *)
(***************************************************************************)
\* The tokens that the step put into the cache.
TokensAdded ==
    { tokens'[i] : i \in 1..Len(tokens') } \ { tokens[j] : j \in 1..Len(tokens) }

C35_MinterInvariant ==
    [][ Handles
        => /\ TokensAdded # {}
                 => /\ IsTokens(received') /\ IsOk(outcome')
                    /\ ~ReloadFails
                    /\ received'.chan \in Directory
                    /\ enrollers' = Directory
           /\ \A tkn \in TokensAdded :
                  /\ tkn.generated_by = received'.chan
                  /\ tkn.code = outcome'.body.code
                  /\ tkn.time = now
           /\ (ReloadFails \/ received'.chan \notin Directory) => TokensAdded = {}
      ]_vars

\* The cache holds the token E2 minted when the file listed it; M1, which
\* no document lists, then asked for a token with a body that decodes,
\* was refused, and the cache holds E2's token only.
C35_Witness ==
    /\ IsTokens(received) /\ received.chan = "M1"
    /\ received.body.t = "CreateToken"
    /\ IsForbidden(outcome, "unauthorized enroller")
    /\ Len(tokens) = 1 /\ tokens[1].generated_by = "E2"
    /\ Reloads
(***************************************************************************)
(* C36  Recovery after a lost first credential.  A redemption of a cached, *)
(* unexpired code that ends without the credential reaching the peer,      *)
(* the signer having failed or the response being lost, has written the    *)
(* peer's entry and consumed the code.  No request deletes an entry.  And  *)
(* a POST /credential without body from a peer that has an entry is        *)
(* answered OK with the credential of that entry, unless the store or the  *)
(* signer fails in that request.                                           *)
(***************************************************************************)
C36_Recovery ==
    [][ Handles
        => /\ (/\ IsRedeem(received')
               /\ LruContains(tokens, received'.body.code)
               /\ now - LruPeek(tokens, received'.body.code).time <= 600
               /\ outcome' \in {Failed("sign"), Failed("send")})
                 => /\ received'.chan \in DOMAIN store'
                    /\ store'[received'.chan].attested_by
                           = LruPeek(tokens, received'.body.code).generated_by
                    /\ ~LruContains(tokens', received'.body.code)
           /\ DOMAIN store \subseteq DOMAIN store'
           /\ (IsCredential(received') /\ received'.chan \in DOMAIN store)
                 => \/ /\ IsOk(outcome')
                       /\ outcome'.body.t = "credential"
                       /\ outcome'.body.subject = received'.chan
                    \/ outcome' \in {internal_error(received'.hdr, "store"),
                                     Failed("sign")}
      ]_vars

\* M1 redeemed a code; the entry was written and the signer failed, or the
\* response was lost.  The code is gone, and M1's later POST /credential
\* without body was answered OK with a credential that has the token's
\* attributes.
C36_Witness ==
    \E i, j, k \in DOMAIN emitted :
        /\ i < j /\ j < k
        /\ OkAt(i, <<"tokens">>, TRUE)
        /\ IsRedeem(emitted[j].message)
        /\ emitted[j].message.chan = "M1"
        /\ emitted[i].outcome.body = CodeBody(emitted[j].message.body.code)
        /\ emitted[j].outcome \in {Failed("sign"), Failed("send")}
        /\ emitted[j].at <= 600
        /\ OkAt(k, <<"credential">>, FALSE)
        /\ emitted[k].message.chan = "M1"
        /\ emitted[k].outcome.body.t = "credential"
        /\ \A a \in DOMAIN emitted[i].message.body.attrs \ {"project_id"} :
               a \in DOMAIN emitted[k].outcome.body.attrs
        /\ tokens = <<>>
(***************************************************************************)
(* C37  Token credential equals entry credential.  When a peer redeemed a  *)
(* token with OK and later, no entry having been written for it in         *)
(* between, is answered OK to a POST /credential without body, the two     *)
(* credentials have the same subject, the same schema and the same         *)
(* attributes, project_id included.                                        *)
(***************************************************************************)
\* emitted[l] wrote an entry for peer p.
WroteFor(l, p) ==
    \/ /\ IsMembers(emitted[l].message) /\ IsOk(emitted[l].outcome)
       /\ emitted[l].message.body.member = p
    \/ /\ IsRedeem(emitted[l].message) /\ emitted[l].message.chan = p
       /\ emitted[l].outcome \notin
              {forbidden(emitted[l].message.hdr, "unknown token"),
               forbidden(emitted[l].message.hdr, "expired token"),
               Failed("store")}

C37_SameCredential ==
    \A j, k \in DOMAIN emitted :
        (/\ j < k
         /\ IsRedeem(emitted[j].message) /\ IsOk(emitted[j].outcome)
         /\ OkAt(k, <<"credential">>, FALSE)
         /\ emitted[k].message.chan = emitted[j].message.chan
         /\ \A l \in DOMAIN emitted : j < l /\ l < k
                => ~WroteFor(l, emitted[j].message.chan))
        => /\ emitted[k].outcome.body.t = "credential"
           /\ emitted[j].outcome.body.t = "credential"
           /\ emitted[k].outcome.body.subject = emitted[j].outcome.body.subject
           /\ emitted[k].outcome.body.schema = emitted[j].outcome.body.schema
           /\ emitted[k].outcome.body.attrs = emitted[j].outcome.body.attrs
           /\ emitted[k].outcome.body.attrs[PROJECT_ID] = project

\* M1 was issued a credential for a token whose attributes hold a
\* "project_id" of their own, and then a credential from its entry.
C37_Witness ==
    \E i, j, k \in DOMAIN emitted :
        /\ i < j /\ j < k
        /\ OkAt(i, <<"tokens">>, TRUE)
        /\ "project_id" \in DOMAIN emitted[i].message.body.attrs
        /\ IsRedeem(emitted[j].message) /\ IsOk(emitted[j].outcome)
        /\ emitted[j].message.chan = "M1"
        /\ emitted[i].outcome.body = CodeBody(emitted[j].message.body.code)
        /\ OkAt(k, <<"credential">>, FALSE)
        /\ emitted[k].message.chan = "M1"
        /\ DOMAIN emitted[k].outcome.body.attrs = {"project_id", "team"}
(***************************************************************************)
(* C38  No record loss in migration.  Wherever a call of Server::new       *)
(* stops, at its end or at the call that fails, every record the legacy    *)
(* storage held is still in the legacy storage, unchanged, or is in the    *)
(* attribute store under its identity with its attributes as bytes, or     *)
(* both; the construction adds no legacy record; a construction that       *)
(* succeeds, the first or a later one, leaves the legacy storage empty;    *)
(* and serving requests does not touch the legacy storage.                 *)
(***************************************************************************)
C38_NoRecordLoss ==
    [][ /\ Constructs
           => /\ \A k \in DOMAIN legacy :
                    \/ k \in DOMAIN legacy' /\ legacy'[k] = legacy[k]
                    \/ /\ legacy[k].t = "map" /\ is_identifier(k)
                       /\ k \in DOMAIN store'
                       /\ store'[k].attrs = attrs_to_bytes(legacy[k].attrs)
                       /\ store'[k].attested_by = None
              /\ DOMAIN legacy' \subseteq DOMAIN legacy
              /\ \A id \in DOMAIN store : id \in DOMAIN store'
              /\ constructed'.t = "Ok" => legacy' = EmptyMap
        /\ Handles => legacy' = legacy
      ]_vars

\* A construction migrated and deleted M1's record and stopped at the
\* write of E2's entry: M1's record is in the store, E2's record is still
\* in the legacy storage, and there is no server.
C38_Witness ==
    /\ constructed.t = "Err" /\ constructed.error = "put"
    /\ constructed.fail = <<"put", "E2">>
    /\ DOMAIN legacy = {"E2"} /\ legacy["E2"].t = "map"
    /\ DOMAIN store = {"M1"}
    /\ store["M1"].attrs = attrs_to_bytes(legacy["E2"].attrs)
    /\ store["M1"].attested_by = None
(***************************************************************************)
(* C39  Migration overwrites.  A construction that migrates the legacy     *)
(* record of an identity that has an entry replaces the entry: afterwards  *)
(* the entry is the legacy attributes as bytes, added now, without expiry  *)
(* and with attested_by = None, whatever the entry was and whoever         *)
(* attested it.                                                            *)
(***************************************************************************)
C39_MigrationOverwrites ==
    [][ Constructs
        => \A k \in DOMAIN legacy \cap DOMAIN store :
               (k \notin DOMAIN legacy' \/ constructed'.t = "Ok")
               => store'[k] = AttributesEntry(attrs_to_bytes(legacy[k].attrs),
                                              now, None, None)
      ]_vars

\* M1's entry {"role"}, attested by E1, was replaced at construction by
\* its legacy record: the entry has the legacy names and no attester.
C39_Witness ==
    /\ constructed.t = "Ok" /\ constructed.attested = {"M1"}
    /\ "M1" \in DOMAIN store
    /\ DOMAIN store["M1"].attrs = {"project_id", "team"}
    /\ store["M1"].attested_by = None
    /\ legacy = EmptyMap
(***************************************************************************)
(* C40  Isolation of member credentials.  The answer to a POST /credential *)
(* without body from peer p is a function of p's entry, of the request's   *)
(* header and of the configured project, and of whether the store and the  *)
(* signer work: without entry Forbidden("unauthorized member"), with an    *)
(* entry OK with the credential of subject p, the member schema, the       *)
(* entry's attributes and project_id.  The token cache, the enroller map   *)
(* and the entries of the other identities play no part, so two runs that  *)
(* differ in these only give p the same status and the same attributes.    *)
(***************************************************************************)
\* The answers to p's request with header hdr, p's entry being the member,
\* if any, of the set own.
MemberAnswers(p, hdr, own) ==
    {internal_error(hdr, "store")}
    \cup
    IF own = {}
    THEN {forbidden(hdr, "unauthorized member")}
    ELSE { Failed("sign") }
         \cup
         { Response("Ok", hdr.id,
                    [EmptyBody EXCEPT !.t = "credential", !.subject = p,
                                      !.schema = PROJECT_MEMBER_SCHEMA,
                                      !.attrs = ("project_id" :> project)
                                                    @@ e.attrs]) :
               e \in own }

C40_Isolation ==
    [][ (Handles /\ IsCredential(received'))
        => outcome' \in MemberAnswers(received'.chan, received'.hdr,
                                      EntryOf(store, received'.chan))
      ]_vars

\* M1 was issued the credential of its entry while the cache held a
\* token, E2 had an entry of its own and the enroller map listed E2;
\* E1, an enroller without entry, is not a member.
C40_Witness ==
    /\ IsCredential(received) /\ received.chan = "M1" /\ IsOk(outcome)
    /\ outcome.body.attrs = ("project_id" :> project) @@ store["M1"].attrs
    /\ tokens # <<>>
    /\ DOMAIN store = {"M1", "E2"}
    /\ enrollers = {"E1", "E2"}
====
